---- MODULE Spec2Model ----
(***************************************************************************)
(* A model of cnccoder's program assembly: ToolOrdering (src/src/tools.rs) *)
(* and Program / Context / Operation (src/src/program.rs), with the Line   *)
(* and Arc cuts (src/src/cuts/line.rs, src/src/cuts/arc.rs) as the cuts a  *)
(* program holds.                                                          *)
(*                                                                         *)
(* f64 values are modelled by integers. A length is a fixed-point number:  *)
(* the integer n is the f64 n / 1000, so that the tolerances of the cuts   *)
(* (0.001, 0.0001) can be told from zero. Every input of the model is      *)
(* chosen so that the roots and quotients the code computes are whole.     *)
(* Option<T> is a sequence: <<>> is None and <<v>> is Some(v).             *)
(* A HashMap is a function whose DOMAIN is its key set.                    *)
(***************************************************************************)
EXTENDS Integers, Sequences, FiniteSets, TLC

VARIABLES
    programs,           \* programs[p]: the Program objects the caller holds
    returned,           \* what the most recent call on a Program returned
    tool_ordering       \* a stand-alone ToolOrdering (as in the tests of tools.rs)

vars == <<programs, returned, tool_ordering>>

----------------------------------------------------------------------------
(* Bounds of the model.                                                    *)

\* Longest ToolOrdering.tools vector at which set_ordering is still called (stand-alone ToolOrdering).
MaxToolsLen == 3
\* Highest position passed to ToolOrdering::set_ordering (0 is passed too).
MaxOrder == 3
\* Most operations appended to the contexts of all programs together.
MaxOps == 2
\* Most operations the two programs of a merge hold together before it.
MaxMergeOps == 3
\* The same, in the specification that reorders the tools of a program.
MaxReorderOps == 1
\* Longest ToolOrdering.tools vector of a Program at which set_tool_ordering is still called.
MaxProgramToolsLen == 3
\* The same, for the program that is merged into another.
MaxMergeToolsLen == 1
\* Highest position passed to Program::set_tool_ordering (0 is passed too).
MaxProgramOrder == 2
\* Highest start.z of a layered cut, in thousandths; its end_z is 0.
MaxStartZ == 5
\* Most operations of the program whose bounds are taken.
MaxBoundsOps == 2
\* Most operations a context holds after Context::merge.
MaxContextOps == 2
\* Longest ToolOrdering.tools vector at which set_tool_ordering is still called
\* on either of two programs that are merged both ways.
MaxPositionToolsLen == 2
\* Most descriptions added to a program.
MaxDescriptions == 2

----------------------------------------------------------------------------
(* Shared types: Option, Result, Units, tools.                             *)

None == <<>>
Some(v) == <<v>>

Ok(v) == [ok |-> TRUE, value |-> v]
Err(e) == [ok |-> FALSE, error |-> e]

Max(a, b) == IF a < b THEN b ELSE a
Min(a, b) == IF a < b THEN a ELSE b

AllUnits == {"Metric", "Imperial"}

\* The tools of test_program_to_instructions / test_mix_set_and_auto_ordering,
\* varied in direction and spindle speed.
Tool1 == [shape |-> "Cylindrical", units |-> "Metric", length |-> 50, diameter |-> 4,
          direction |-> "Clockwise", spindle_speed |-> 5000, feed_rate |-> 400]
\* Conical::new derives the length: (16 / 2) / tan(90 / 2 degrees) = 8
Tool2 == [shape |-> "Conical", units |-> "Imperial", angle |-> 90, diameter |-> 16, length |-> 8,
          direction |-> "Counterclockwise", spindle_speed |-> 10000, feed_rate |-> 400]
Tool3 == [shape |-> "Ballnose", units |-> "Metric", length |-> 20, diameter |-> 1,
          direction |-> "Clockwise", spindle_speed |-> 10000, feed_rate |-> 500]

\* Tools of the stand-alone ToolOrdering, and of the programs.
Tools == {Tool1, Tool2, Tool3}
ProgramTools == {Tool1, Tool2}

\* The u8 positions passed to set_ordering.
Orders == 0..MaxOrder

EmptyMap == [t \in {} |-> 0]
Values(m) == {m[t] : t \in DOMAIN m}

----------------------------------------------------------------------------
(* ToolOrdering, src/src/tools.rs                                          *)

ToolOrdering_default == [tools |-> <<>>, ordering |-> EmptyMap, explicit_ordering |-> EmptyMap]

\* A bug: counts only the positions of the explicit table as taken.
next_auto_order_explicit_only(self) ==
    LET used == Values(self.explicit_ordering)
        RECURSIVE loop(_)
        loop(next_order) == IF next_order \in used THEN loop(next_order + 1) ELSE next_order
    IN  loop(1)

\* The lowest position, from 1, held by no entry of ordering or explicit_ordering.
next_auto_order(self) ==
    LET used == Values(self.ordering) \cup Values(self.explicit_ordering)
        RECURSIVE loop(_)
        loop(next_order) == IF next_order \in used THEN loop(next_order + 1) ELSE next_order
    IN  loop(1)

auto_ordering(self, tool) ==
    IF tool \in DOMAIN self.ordering
    THEN self
    ELSE [self EXCEPT !.tools = Append(@, tool),
                      !.ordering = (tool :> next_auto_order(self)) @@ @]

\* A bug: the position 0 is not raised to 1.
set_ordering_unclamped(self, tool, order) ==
    LET tools1 == Append(self.tools, tool)
        retained == [t \in {u \in DOMAIN self.explicit_ordering :
                              self.explicit_ordering[u] # order \/ u = tool}
                       |-> self.explicit_ordering[t]]
        explicit1 == (tool :> order) @@ retained
        RECURSIVE fill(_, _)
        fill(i, ord) ==
            IF i > Len(tools1) THEN ord
            ELSE IF tools1[i] \in DOMAIN ord THEN fill(i + 1, ord)
            ELSE fill(i + 1, (tools1[i] :> next_auto_order(
                        [tools |-> tools1, ordering |-> ord, explicit_ordering |-> explicit1])) @@ ord)
    IN  [tools |-> tools1, ordering |-> fill(1, explicit1), explicit_ordering |-> explicit1]

\* A bug: the automatic positions are patched, not recomputed: the known tools keep theirs.
set_ordering_incremental(self, tool, order) ==
    LET order1 == IF order = 0 THEN 1 ELSE order
        tools1 == Append(self.tools, tool)
        retained == [t \in {u \in DOMAIN self.explicit_ordering :
                              self.explicit_ordering[u] # order1 \/ u = tool}
                       |-> self.explicit_ordering[t]]
        explicit1 == (tool :> order1) @@ retained
    IN  [tools |-> tools1, ordering |-> explicit1 @@ self.ordering, explicit_ordering |-> explicit1]

set_ordering(self, tool, order) ==
    LET order1 == IF order = 0 THEN 1 ELSE order
        tools1 == Append(self.tools, tool)
        \* explicit_ordering.retain(|t, o| *o != order || t == tool)
        retained == [t \in {u \in DOMAIN self.explicit_ordering :
                              self.explicit_ordering[u] # order1 \/ u = tool}
                       |-> self.explicit_ordering[t]]
        explicit1 == (tool :> order1) @@ retained
        \* ordering.clear(); copy explicit_ordering; then every tool of tools
        \* without a position takes next_auto_order()
        RECURSIVE fill(_, _)
        fill(i, ord) ==
            IF i > Len(tools1) THEN ord
            ELSE IF tools1[i] \in DOMAIN ord THEN fill(i + 1, ord)
            ELSE fill(i + 1, (tools1[i] :> next_auto_order(
                        [tools |-> tools1, ordering |-> ord, explicit_ordering |-> explicit1])) @@ ord)
    IN  [tools |-> tools1, ordering |-> fill(1, explicit1), explicit_ordering |-> explicit1]

ordering(self, tool) == IF tool \in DOMAIN self.ordering THEN Some(self.ordering[tool]) ELSE None

\* A bug: sorted by descending position.
tools_ordered_descending(self) ==
    LET RECURSIVE sorted(_)
        sorted(rest) ==
            IF rest = {} THEN <<>>
            ELSE LET t == CHOOSE t \in rest : \A u \in rest : self.ordering[t] >= self.ordering[u]
                 IN  <<t>> \o sorted(rest \ {t})
    IN  sorted(DOMAIN self.ordering)

\* The entries of ordering sorted by position (positions are compared, ties in map order).
tools_ordered(self) ==
    LET RECURSIVE sorted(_)
        sorted(rest) ==
            IF rest = {} THEN <<>>
            ELSE LET t == CHOOSE t \in rest : \A u \in rest : self.ordering[t] <= self.ordering[u]
                 IN  <<t>> \o sorted(rest \ {t})
    IN  sorted(DOMAIN self.ordering)

----------------------------------------------------------------------------
(* Instructions, src/src/instructions.rs. Instruction derives PartialEq:   *)
(* two instructions are equal when variant and fields are equal.           *)

G0(x, y, z) == [op |-> "G0", x |-> x, y |-> y, z |-> z]
G1(x, y, z, f) == [op |-> "G1", x |-> x, y |-> y, z |-> z, f |-> f]
G2(x, y, z, i, j, k, r, p, f) ==
    [op |-> "G2", x |-> x, y |-> y, z |-> z, i |-> i, j |-> j, k |-> k, r |-> r, p |-> p, f |-> f]
G3(x, y, z, i, j, k, r, p, f) ==
    [op |-> "G3", x |-> x, y |-> y, z |-> z, i |-> i, j |-> j, k |-> k, r |-> r, p |-> p, f |-> f]
G4(p) == [op |-> "G4", p |-> p]
G17 == [op |-> "G17"]
G18 == [op |-> "G18"]
G19 == [op |-> "G19"]
G20 == [op |-> "G20"]
G21 == [op |-> "G21"]
S(x) == [op |-> "S", x |-> x]
M2 == [op |-> "M2"]
M3 == [op |-> "M3"]
M4 == [op |-> "M4"]
M5 == [op |-> "M5"]
M6(t) == [op |-> "M6", t |-> t]
Empty == [op |-> "Empty"]
\* text is a tuple of the pieces that format! joins
Comment(text) == [op |-> "Comment", text |-> text]
Message(text) == [op |-> "Message", text |-> text]

----------------------------------------------------------------------------
(* Vector3 and Bounds, src/src/types/mod.rs and src/src/types/vector.rs    *)

\* f64::MAX and f64::MIN: beyond every coordinate of the model. A sum or a
\* difference that leaves [F64Min, F64Max] is an infinite f64.
F64Max == 1000000
F64Min == 0 - F64Max

Vector3(x, y, z) == [x |-> x, y |-> y, z |-> z]
Vector3_default == Vector3(0, 0, 0)
Vector3_min == Vector3(F64Min, F64Min, F64Min)
Vector3_max == Vector3(F64Max, F64Max, F64Max)

Bounds_default == [min |-> Vector3_default, max |-> Vector3_default]
Bounds_minmax == [min |-> Vector3_max, max |-> Vector3_min]
Bounds_size(self) ==
    Vector3(self.max.x - self.min.x, self.max.y - self.min.y, self.max.z - self.min.z)

\* round_precision(value) of a finite value whose thousandfold is finite is
\* the value itself for a whole number of thousandths; anything else is
\* printed as 0.
format_number(value) == IF value > F64Min /\ value < F64Max THEN value ELSE 0

\* format!("{:.2}", value) of a value >= 0: two decimals, the nearest ten
\* thousandths. No value of the model is half way between two of them.
format_2(value) == ((value + 5) \div 10) * 10

\* scale(x, in_min, in_max, out_min, out_max) as u64, for x >= in_min
scale(x, in_min, in_max, out_min, out_max) ==
    ((x - in_min) * (out_max - out_min)) \div (in_max - in_min) + out_min

----------------------------------------------------------------------------
(* Cuts: Line (src/src/cuts/line.rs) and Arc (src/src/cuts/arc.rs)         *)

Line_new(from, to) == [kind |-> "Line", from |-> from, to |-> to]
Arc_new(from, to, center, axis, direction) ==
    [kind |-> "Arc", from |-> from, to |-> to, center |-> center, axis |-> axis,
     direction |-> direction]

Line_bounds(self) ==
    [min |-> Vector3(Min(self.from.x, self.to.x), Min(self.from.y, self.to.y),
                     Min(self.from.z, self.to.z)),
     max |-> Vector3(Max(self.from.x, self.to.x), Max(self.from.y, self.to.y),
                     Max(self.from.z, self.to.z))]

\* A bug: the line is left where its cut ends, without the retract.
Line_to_instructions_no_retract(self, context) ==
    Ok(<< Empty,
          Comment(<<"Cut line from", self.from.x, self.from.y, self.from.z,
                    "to", self.to.x, self.to.y, self.to.z>>),
          G0(None, None, Some(context.z_safe)),
          G0(Some(self.from.x), Some(self.from.y), None),
          G1(None, None, Some(self.from.z), Some(context.tool.feed_rate)),
          G1(Some(self.to.x), Some(self.to.y), Some(self.to.z), None) >>)

Line_to_instructions(self, context) ==
    Ok(<< Empty,
          Comment(<<"Cut line from", self.from.x, self.from.y, self.from.z,
                    "to", self.to.x, self.to.y, self.to.z>>),
          G0(None, None, Some(context.z_safe)),
          G0(Some(self.from.x), Some(self.from.y), None),
          G1(None, None, Some(self.from.z), Some(context.tool.feed_rate)),
          G1(Some(self.to.x), Some(self.to.y), Some(self.to.z), None),
          G0(None, None, Some(context.z_safe)) >>)

Arc_bounds(self) == [min |-> Vector3_default, max |-> Vector3_default]

\* The square of Vector3::distance_to
distance_to_squared(a, b) ==
    (a.x - b.x) * (a.x - b.x) + (a.y - b.y) * (a.y - b.y) + (a.z - b.z) * (a.z - b.z)

\* (distance_from - distance_to).abs() > 0.0001, from the squares m and n of
\* the two distances. In thousandths the tolerance is 1 / 10, and for
\* hi >= lo: sqrt(hi) - sqrt(lo) > 1 / 10 iff 100 * (hi - lo) - 1 > 20 * sqrt(lo)
\* iff (100 * (hi - lo) - 1)^2 > 400 * lo. Above hi - lo = 400 the left side
\* passes 400 * lo for every distance below 2000, and is not computed.
\* A bug: no tolerance, any difference of the two distances is an error.
distances_differ_at_all(m, n) == m # n

distances_differ(m, n) ==
    LET hi == Max(m, n)
        lo == Min(m, n)
        d == hi - lo
    IN  d > 0 /\ (d > 400 \/ (100 * d - 1) * (100 * d - 1) > 400 * lo)

Arc_distances_differ(self) ==
    distances_differ(distance_to_squared(self.from, self.center),
                     distance_to_squared(self.to, self.center))

Arc_to_instructions(self, context) ==
    IF Arc_distances_differ(self)
    THEN Err(<<"Arc distances from/center and to/center must be equal",
               distance_to_squared(self.from, self.center),
               distance_to_squared(self.to, self.center), context.units>>)
    ELSE Ok(<< Empty,
               Comment(<<"Cut arc", self.direction, self.axis,
                         self.from.x, self.from.y, self.from.z,
                         "to", self.to.x, self.to.y, self.to.z>>),
               G0(None, None, Some(context.z_safe)),
               G0(Some(self.from.x), Some(self.from.y), None),
               G1(None, None, Some(self.from.z), Some(context.tool.feed_rate)),
               CASE self.axis = "X" -> G19
                 [] self.axis = "Y" -> G18
                 [] self.axis = "Z" -> G17,
               IF self.direction = "Clockwise"
               THEN G2(Some(self.to.x), Some(self.to.y), Some(self.to.z),
                       Some(self.center.x - self.from.x), Some(self.center.y - self.from.y),
                       Some(self.center.z - self.from.z), None, None,
                       Some(context.tool.feed_rate))
               ELSE G3(Some(self.to.x), Some(self.to.y), Some(self.to.z),
                       Some(self.center.x - self.from.x), Some(self.center.y - self.from.y),
                       Some(self.center.z - self.from.z), None, None,
                       Some(context.tool.feed_rate)),
               G17,
               G0(None, None, Some(context.z_safe)) >>)

----------------------------------------------------------------------------
(* Vector2 and the f64 operations of the layered cuts                      *)

\* instructions.append(&mut rest?): the first error ends the compilation
append_result(instructions, rest) ==
    IF ~rest.ok THEN rest ELSE Ok(instructions \o rest.value)

\* instructions.append(&mut first?), then the instructions after it
append_pass(pass, rest) == IF ~pass.ok THEN pass ELSE append_result(pass.value, rest)

Vector2(x, y) == [x |-> x, y |-> y]

Abs(x) == IF x < 0 THEN 0 - x ELSE x

\* f64::sqrt of a square: the inputs of the model have whole distances
whole_root(n) == CHOOSE r \in 0..n : r * r = n

\* a / b for 0 <= a, 0 < b and a whole quotient
whole_quotient(a, b) == CHOOSE q \in 0..a : q * b = a

\* The square of Vector2::distance_to
Vector2_distance_to_squared(a, b) ==
    (a.x - b.x) * (a.x - b.x) + (a.y - b.y) * (a.y - b.y)

Vector2_distance_to(a, b) == whole_root(Vector2_distance_to_squared(a, b))

\* 0.0 / 0.0: a value outside the f64 range of the model. As a value of the
\* model it is equal to itself, while an f64 NaN is not: where the code
\* compares instructions (Instruction_eq) an instruction that holds it is
\* equal to none. Two instructions that hold it are written as the same text.
NaN == F64Max + F64Max

\* An instruction one of whose f64 fields is NaN
holds_NaN(instruction) ==
    CASE instruction.op \in {"G0", "G1", "G2", "G3"} ->
           \E field \in DOMAIN instruction \ {"op"} :
               instruction[field] = Some(NaN)
      [] instruction.op = "S" -> instruction.x = NaN
      [] OTHER -> FALSE

\* The derived PartialEq of Instruction: the same variant with equal fields,
\* and a NaN field is not equal to itself
Instruction_eq(a, b) == a = b /\ ~holds_NaN(a)

\* a - b of f64
f64_sub(a, b) == IF a = NaN \/ b = NaN THEN NaN ELSE a - b

----------------------------------------------------------------------------
(* Cut: Path, src/src/cuts/path.rs                                         *)

Segment_line(from, to) == [kind |-> "Line", from |-> from, to |-> to]
Segment_arc(from, to, center, direction) ==
    [kind |-> "Arc", from |-> from, to |-> to, center |-> center, axis |-> "Z",
     direction |-> direction]
Segment_point(x, y) == [kind |-> "Point", point |-> Vector2(x, y)]

Arc2D_radius(self) ==
    whole_root(Max(Vector2_distance_to_squared(self.from, self.center),
                   Vector2_distance_to_squared(self.to, self.center)))

Path_new(start, segments, end_z, max_step_z) ==
    [kind |-> "Path", start |-> start, segments |-> segments, end_z |-> end_z,
     max_step_z |-> max_step_z]

\* The box one segment of a path is folded into the bounds with
Path_segment_bounds(self, segment) ==
    LET max_z == IF self.start.z > self.end_z THEN self.start.z ELSE self.end_z
        min_z == IF self.start.z < self.end_z THEN self.start.z ELSE self.end_z
    IN  CASE segment.kind = "Arc" ->
               LET radius == Arc2D_radius(segment)
               IN  [min |-> Vector3(segment.center.x - radius, segment.center.y - radius,
                                    min_z),
                    max |-> Vector3(segment.center.x + radius, segment.center.y + radius,
                                    max_z)]
          [] segment.kind = "Line" ->
               [min |-> Vector3(self.start.x + Min(segment.from.x, segment.to.x),
                                self.start.y + Min(segment.from.y, segment.to.y), min_z),
                max |-> Vector3(self.start.x + Max(segment.from.x, segment.to.x),
                                self.start.y + Max(segment.from.y, segment.to.y), max_z)]
          [] segment.kind = "Point" ->
               [min |-> Vector3(self.start.x + segment.point.x,
                                self.start.y + segment.point.y, min_z),
                max |-> Vector3(self.start.x + segment.point.x,
                                self.start.y + segment.point.y, max_z)]

Path_bounds(self) ==
    LET RECURSIVE fold(_, _)
        fold(bounds, index) ==
            IF index > Len(self.segments) THEN bounds
            ELSE LET b == Path_segment_bounds(self, self.segments[index])
                 IN  fold([min |-> Vector3(Min(bounds.min.x, b.min.x),
                                           Min(bounds.min.y, b.min.y),
                                           Min(bounds.min.z, b.min.z)),
                           max |-> Vector3(Max(bounds.max.x, b.max.x),
                                           Max(bounds.max.y, b.max.y),
                                           Max(bounds.max.z, b.max.z))],
                          index + 1)
    IN  fold(Bounds_minmax, 1)

Segment_end(segment) ==
    CASE segment.kind = "Arc" -> segment.to
      [] segment.kind = "Line" -> segment.to
      [] segment.kind = "Point" -> segment.point

\* distances: from the end of the previous segment, and from (0, 0) for the
\* first segment, to the end of each segment
Path_distances(self) ==
    [index \in 1..Len(self.segments) |->
        Vector2_distance_to(IF index = 1 THEN Vector2(0, 0)
                            ELSE Segment_end(self.segments[index - 1]),
                            Segment_end(self.segments[index]))]

Path_total_distance(distances) ==
    LET RECURSIVE sum(_)
        sum(index) == IF index > Len(distances) THEN 0
                      ELSE distances[index] + sum(index + 1)
    IN  sum(1)

\* ((start.z - end_z) / max_step_z).floor() as u32: the cast gives 0 for a
\* negative quotient. max_step_z is never 0 in the model (the quotient is
\* then infinite or NaN, and the cast gives u32::MAX or 0).
Path_layers(self) ==
    IF self.start.z - self.end_z < 0 THEN 0
    ELSE (self.start.z - self.end_z) \div Abs(self.max_step_z)

\* distance / total_distance * (start_z - end_z), for start_z >= end_z
Path_share(distance, total_distance, depth) ==
    IF total_distance = 0 THEN NaN
    ELSE whole_quotient(distance * depth, total_distance)

\* One turn of the loop over the segments: the arc check, then the moves of
\* the segment from from_z to to_z, then the segments after it (rest)
Segment_to_instructions(self, units, segment, from_z, to_z, rest) ==
    IF segment.kind = "Arc"
       /\ distances_differ(Vector2_distance_to_squared(segment.from, segment.center),
                           Vector2_distance_to_squared(segment.to, segment.center))
    THEN Err(<<"Arc distances from/center and to/center must be equal",
               Vector2_distance_to_squared(segment.from, segment.center),
               Vector2_distance_to_squared(segment.to, segment.center),
               units>>)
    ELSE append_result(
           CASE segment.kind = "Arc" ->
                  << G1(Some(self.start.x + segment.from.x),
                        Some(self.start.y + segment.from.y), Some(from_z), None),
                     CASE segment.axis = "X" -> G19
                       [] segment.axis = "Y" -> G18
                       [] segment.axis = "Z" -> G17,
                     IF segment.direction = "Clockwise"
                     THEN G2(Some(self.start.x + segment.to.x),
                             Some(self.start.y + segment.to.y), Some(to_z),
                             Some(segment.center.x - segment.from.x),
                             Some(segment.center.y - segment.from.y),
                             None, None, None, None)
                     ELSE G3(Some(self.start.x + segment.to.x),
                             Some(self.start.y + segment.to.y), Some(to_z),
                             Some(segment.center.x - segment.from.x),
                             Some(segment.center.y - segment.from.y),
                             None, None, None, None),
                     G17 >>
             [] segment.kind = "Line" ->
                  << G1(Some(self.start.x + segment.from.x),
                        Some(self.start.y + segment.from.y), Some(from_z), None),
                     G1(Some(self.start.x + segment.to.x),
                        Some(self.start.y + segment.to.y), Some(to_z), None) >>
             [] segment.kind = "Point" ->
                  << G1(Some(self.start.x + segment.point.x),
                        Some(self.start.y + segment.point.y), Some(to_z), None) >>,
           rest)

segments_to_instructions(self, units, start_z, end_z, distances, total_distance) ==
    LET RECURSIVE walk(_, _), descend(_, _, _)
        descend(index, from_z, to_z) ==
            Segment_to_instructions(self, units, self.segments[index], from_z, to_z,
                                    walk(index + 1, to_z))
        walk(index, from_z) ==
            IF index > Len(self.segments) THEN Ok(<<>>)
            ELSE descend(index, from_z,
                         f64_sub(from_z, Path_share(distances[index], total_distance,
                                                    start_z - end_z)))
    IN  walk(1, start_z)

\* The first point of the path, moved by start
Path_first_point(self, first) ==
    CASE first.kind = "Arc" ->
           Vector3(first.from.x + self.start.x, first.from.y + self.start.y, self.start.z)
      [] first.kind = "Line" ->
           Vector3(first.from.x + self.start.x, first.from.y + self.start.y, self.start.z)
      [] first.kind = "Point" ->
           Vector3(first.point.x + self.start.x, first.point.y + self.start.y, self.start.z)

\* The layers of max_step_z from start.z down, then the final pass at end_z
Path_passes(self, units, distances, total_distance) ==
    LET RECURSIVE passes(_)
        passes(layer) ==
            IF layer >= Path_layers(self)
            THEN segments_to_instructions(self, units, self.end_z, self.end_z,
                                          distances, total_distance)
            ELSE append_pass(
                   segments_to_instructions(
                       self, units,
                       self.start.z - layer * Abs(self.max_step_z),
                       self.start.z - (layer + 1) * Abs(self.max_step_z),
                       distances, total_distance),
                   passes(layer + 1))
    IN  passes(0)

\* The approach to the start, the passes (body), the retreat to z_safe
Path_approach_and_retreat(self, context, start, body) ==
    IF ~body.ok THEN body
    ELSE Ok(<< Empty,
               Comment(<<"Cut path at", format_number(self.start.x),
                         format_number(self.start.y)>>),
               G0(None, None, Some(context.z_safe)),
               G0(Some(start.x), Some(start.y), None),
               G1(None, None, Some(start.z), Some(context.tool.feed_rate)) >>
            \o body.value
            \o << G0(None, None, Some(context.z_safe)) >>)

Path_to_instructions(self, context) ==
    IF self.segments = <<>> THEN Ok(<<>>)
    ELSE Path_approach_and_retreat(
           self, context, Path_first_point(self, self.segments[1]),
           Path_passes(self, context.units, Path_distances(self),
                       Path_total_distance(Path_distances(self))))

----------------------------------------------------------------------------
(* Cut: Circle, src/src/cuts/circle.rs                                     *)

\* 0.001, in thousandths
Thousandth == 1

\* Tool::radius: diameter / 2.0, whole for the tools a cut is compiled with
Tool_radius(tool) == tool.diameter \div 2
Tool_diameter(tool) == tool.diameter

Circle_new(start, radius, end_z, max_step_z, compensation) ==
    [kind |-> "Circle", start |-> start, end_z |-> end_z, radius |-> radius,
     max_step_z |-> max_step_z, compensation |-> compensation]

Circle_drill(start, end_z) ==
    [kind |-> "Circle", start |-> start, end_z |-> end_z, radius |-> 0,
     max_step_z |-> 0, compensation |-> "None"]

Circle_bounds(self) ==
    [min |-> Vector3(self.start.x - self.radius, self.start.y - self.radius, self.end_z),
     max |-> Vector3(self.start.x + self.radius, self.start.y + self.radius,
                     self.start.z)]

\* cut_radius: the whole thousandth nearest to its f64 value, and whether the
\* f64 value lies below that thousandth. radius - tool_radius and
\* radius + tool_radius are rounded to a double, and among the radii and the
\* tools of the model two differences fall short of their thousandth:
\* 0.009 - 0.008 = 0.0009999999999999992 and 0.009 - 0.002 =
\* 0.006999999999999999. 0.003 - 0.002 is 0.001, a radius equal to the tool
\* radius gives 0.0, and no sum falls short.
Circle_cut_radius(self, context) ==
    CASE self.compensation = "None" -> [nearest |-> self.radius, short |-> FALSE]
      [] self.compensation = "Inner" ->
           [nearest |-> self.radius - Tool_radius(context.tool),
            short |-> <<self.radius, Tool_radius(context.tool)>> \in {<<9, 8>>, <<9, 2>>}]
      [] self.compensation = "Outer" ->
           [nearest |-> self.radius + Tool_radius(context.tool), short |-> FALSE]

\* (0.0..0.001).contains(&cut_radius)
Circle_drills(self, context) ==
    LET cut_radius == Circle_cut_radius(self, context)
    IN  /\ 0 <= cut_radius.nearest
        /\ \/ cut_radius.nearest < Thousandth
           \/ cut_radius.nearest = Thousandth /\ cut_radius.short

\* ((start.z - end_z) / max_step_z).floor() as u32: the cast gives 0 for a
\* negative quotient. max_step_z is never 0 where the layers are computed
\* (the quotient is then infinite or NaN, and the cast gives u32::MAX or 0).
Circle_layers(self) ==
    IF self.start.z - self.end_z < 0 THEN 0
    ELSE (self.start.z - self.end_z) \div Abs(self.max_step_z)

\* A bug: the finishing pass at cut_radius - 0.001 is left out.
Circle_to_instructions_unfinished(self, context) ==
    LET cut_radius == Circle_cut_radius(self, context).nearest
        max_step_z == Abs(self.max_step_z)
        layers == Circle_layers(self)
    IN  IF Circle_drills(self, context)
        THEN Ok(<< Empty,
                   Comment(<<"Drill hole at", format_number(self.start.x),
                             format_number(self.start.y)>>),
                   G0(None, None, Some(context.z_safe)),
                   G0(Some(self.start.x), Some(self.start.y), None),
                   G1(None, None, Some(self.end_z), Some(context.tool.feed_rate)),
                   G0(None, None, Some(context.z_safe)) >>)
        ELSE IF cut_radius > 0
        THEN Ok(<< Empty,
                   Comment(<<"Cut hole at", format_number(self.start.x),
                             format_number(self.start.y)>>),
                   G0(None, None, Some(context.z_safe)),
                   G0(Some(self.start.x - cut_radius), Some(self.start.y), None),
                   G1(None, None, Some(self.start.z), Some(context.tool.feed_rate)) >>
                \o [n \in 1..layers |->
                       G2(Some(self.start.x - cut_radius), None,
                          Some(Max(self.start.z - (n - 1) * max_step_z, self.end_z)),
                          Some(cut_radius), None, None, None, None, None)]
                \o << G2(Some(self.start.x - cut_radius), None, Some(self.end_z),
                         Some(cut_radius), None, None, None, None, None),
                      G0(None, None, Some(context.z_safe)) >>)
        ELSE Err(<<"Unable to cut circle of diameter", format_2(Abs(cut_radius) * 2),
                   context.units, "with tool diameter",
                   format_2(Tool_diameter(context.tool)), context.units>>)

Circle_to_instructions(self, context) ==
    LET cut_radius == Circle_cut_radius(self, context).nearest
        max_step_z == Abs(self.max_step_z)
        layers == Circle_layers(self)
    IN  IF Circle_drills(self, context)
        THEN Ok(<< Empty,
                   Comment(<<"Drill hole at", format_number(self.start.x),
                             format_number(self.start.y)>>),
                   G0(None, None, Some(context.z_safe)),
                   G0(Some(self.start.x), Some(self.start.y), None),
                   G1(None, None, Some(self.end_z), Some(context.tool.feed_rate)),
                   G0(None, None, Some(context.z_safe)) >>)
        ELSE IF cut_radius > 0
        THEN Ok(<< Empty,
                   Comment(<<"Cut hole at", format_number(self.start.x),
                             format_number(self.start.y)>>),
                   G0(None, None, Some(context.z_safe)),
                   G0(Some(self.start.x - cut_radius), Some(self.start.y), None),
                   G1(None, None, Some(self.start.z), Some(context.tool.feed_rate)) >>
                \o [n \in 1..layers |->
                       G2(Some(self.start.x - cut_radius), None,
                          Some(Max(self.start.z - (n - 1) * max_step_z, self.end_z)),
                          Some(cut_radius), None, None, None, None, None)]
                \o << G2(Some(self.start.x - cut_radius), None, Some(self.end_z),
                         Some(cut_radius), None, None, None, None, None),
                      G2(Some(self.start.x - cut_radius), None, Some(self.end_z),
                         Some(cut_radius - Thousandth), None, None, None, None, None),
                      G0(None, None, Some(context.z_safe)) >>)
        ELSE Err(<<"Unable to cut circle of diameter", format_2(Abs(cut_radius) * 2),
                   context.units, "with tool diameter",
                   format_2(Tool_diameter(context.tool)), context.units>>)

----------------------------------------------------------------------------
(* Cut: Frame, src/src/cuts/frame.rs                                       *)

\* a + b of f64
f64_add(a, b) == IF a = NaN \/ b = NaN THEN NaN ELSE a + b

Frame_new(start, size, end_z, max_step_z, compensation) ==
    [kind |-> "Frame", start |-> start, size |-> size, end_z |-> end_z,
     max_step_z |-> max_step_z, compensation |-> compensation]

Frame_bounds(self) ==
    [min |-> Vector3(self.start.x, self.start.y, self.end_z),
     max |-> Vector3(self.start.x + self.size.x, self.start.y + self.size.y,
                     self.start.z)]

\* start and size of a frame or an area, moved by the tool radius
compensated_start(self, tool_radius) ==
    CASE self.compensation = "None" -> self.start
      [] self.compensation = "Inner" ->
           Vector3(self.start.x + tool_radius, self.start.y + tool_radius, self.start.z)
      [] self.compensation = "Outer" ->
           Vector3(self.start.x - tool_radius, self.start.y - tool_radius, self.start.z)

compensated_size(self, tool_radius) ==
    CASE self.compensation = "None" -> self.size
      [] self.compensation = "Inner" ->
           Vector2(self.size.x - tool_radius * 2, self.size.y - tool_radius * 2)
      [] self.compensation = "Outer" ->
           Vector2(self.size.x + tool_radius * 2, self.size.y + tool_radius * 2)

\* (size / circumference) * delta_z, for size >= 0 and delta_z <= 0
Frame_step_z(size, circumference, delta_z) ==
    IF circumference = 0 THEN NaN
    ELSE 0 - whole_quotient(size * (0 - delta_z), circumference)

Frame_generate_layer_instructions(self, start, size, start_z, end_z) ==
    LET delta_z == end_z - start_z
        circumference == (size.x + size.y) * 2
        x_step_z == Frame_step_z(size.x, circumference, delta_z)
        y_step_z == Frame_step_z(size.y, circumference, delta_z)
    IN  << G1(Some(start.x + size.x), None, Some(f64_add(start_z, x_step_z)), None),
           G1(None, Some(start.y + size.y),
              Some(f64_add(f64_add(start_z, x_step_z), y_step_z)), None),
           G1(Some(start.x), None,
              Some(f64_add(f64_add(start_z, f64_add(x_step_z, x_step_z)), y_step_z)), None),
           G1(None, Some(start.y), Some(end_z), None) >>

\* ((start_z - self.end_z).abs() / max_step_z).floor() as u32, max_step_z # 0
Frame_layers(self) == Abs(self.start.z - self.end_z) \div Abs(self.max_step_z)

\* A bug: the Y size is tested before the X size.
Frame_size_error_y_first(self, context, name, joint) ==
    LET tool_diameter == Tool_diameter(context.tool)
        tool_units == context.tool.units
    IN  IF self.size.y < tool_diameter
        THEN <<Err(<<name, "tool is", format_2(tool_diameter - self.size.y), tool_units, joint,
                     "than y dimension (tool diameter is", format_2(tool_diameter), tool_units>>)>>
        ELSE IF self.size.x < tool_diameter
        THEN <<Err(<<name, "tool is", format_2(tool_diameter - self.size.x), tool_units, joint,
                     "than x dimension (tool diameter is", format_2(tool_diameter), tool_units>>)>>
        ELSE <<>>

\* The two size tests that open Frame::to_instructions and
\* Area::to_instructions: Some(error), or None when the size passes.
Frame_size_error(self, context, name, joint) ==
    LET tool_diameter == Tool_diameter(context.tool)
        tool_units == context.tool.units
    IN  IF self.size.x < tool_diameter
        THEN <<Err(<<name, "tool is", format_2(tool_diameter - self.size.x), tool_units, joint,
                     "than x dimension (tool diameter is", format_2(tool_diameter), tool_units>>)>>
        ELSE IF self.size.y < tool_diameter
        THEN <<Err(<<name, "tool is", format_2(tool_diameter - self.size.y), tool_units, joint,
                     "than y dimension (tool diameter is", format_2(tool_diameter), tool_units>>)>>
        ELSE <<>>

Frame_to_instructions(self, context) ==
    LET tool_radius == Tool_radius(context.tool)
        size_error == Frame_size_error(self, context, "Unable to cut frame,", "to wider")
        start == compensated_start(self, tool_radius)
        size == compensated_size(self, tool_radius)
        max_step_z == Abs(self.max_step_z)
        layers == Frame_layers(self)
        RECURSIVE passes(_)
        passes(layer) ==
            IF layer > layers
            THEN Frame_generate_layer_instructions(self, start, size, self.end_z,
                                                   self.end_z)
            ELSE Frame_generate_layer_instructions(
                     self, start, size, start.z - (layer - 1) * max_step_z,
                     start.z - layer * max_step_z)
                 \o passes(layer + 1)
    IN  IF size_error # <<>> THEN size_error[1]
        ELSE Ok(<< Empty,
                   Comment(<<"Cut frame", format_number(start.x), format_number(start.y),
                             size>>),
                   G0(None, None, Some(context.z_safe)),
                   G0(Some(start.x), Some(start.y), None),
                   G1(None, None, Some(start.z), Some(context.tool.feed_rate)) >>
                \o passes(1)
                \o << G1(Some(start.x + size.x), None, None, None),
                      G0(None, None, Some(context.z_safe)),
                      G0(Some(start.x), Some(start.y), None) >>)

----------------------------------------------------------------------------
(* Cut: Area, src/src/cuts/area.rs                                         *)

\* 0.01 and 0.5, in thousandths
Hundredth == 10
Half == 500

Area_new(start, size, end_z, max_step_z, compensation) ==
    [kind |-> "Area", start |-> start, size |-> size, end_z |-> end_z,
     end_z_stop |-> end_z, max_step_z |-> max_step_z, compensation |-> compensation]

Area_bounds(self) ==
    [min |-> Vector3(self.start.x, self.start.y, Min(self.end_z, self.end_z_stop)),
     max |-> Vector3(self.start.x + self.size.x, self.start.y + self.size.y,
                     self.start.z)]

\* (a / b).ceil() for a >= 0 and b > 0
ceil_quotient(a, b) == (a + b - 1) \div b

\* (size_y / (tool_radius * 1.8)).ceil() as i32
Area_passes(size_y, tool_radius) == ceil_quotient(size_y * 10, tool_radius * 18)

Area_generate_layer_instructions(self, start, size, end_z, end_z_stop, tool_radius) ==
    LET passes == Area_passes(size.y, tool_radius)
        pass_y == whole_quotient(size.y, passes)
        zigzag == size.x > tool_radius * 2
        RECURSIVE rows(_)
        rows(index) ==
            IF index >= passes THEN <<>>
            ELSE << G1(None, Some(start.y + index * pass_y), None, None),
                    IF index % 2 = 0
                    THEN G1(Some(start.x + size.x), None, Some(end_z_stop), None)
                    ELSE G1(Some(start.x), None, Some(end_z), None) >>
                 \o rows(index + 1)
        end_at_start == ~zigzag \/ passes <= 0 \/ (passes - 1) % 2 # 0
    IN  << G1(Some(start.x + size.x), None, Some(end_z_stop), None),
           G1(None, Some(start.y + size.y), None, None),
           G1(Some(start.x), None, Some(end_z), None),
           G1(None, Some(start.y), None, None) >>
        \o (IF zigzag THEN rows(0) ELSE <<>>)
        \o << G0(None, None, Some((IF end_at_start THEN end_z ELSE end_z_stop) + Half)),
              G0(Some(start.x), Some(start.y), Some(end_z + Half)),
              G1(None, None, Some(end_z), None) >>

\* The layer count, cast to u32; max_step_z # 0
Area_layers(self, start) ==
    IF Abs(self.end_z - self.end_z_stop) < Hundredth
    THEN ceil_quotient(Abs(self.end_z - start.z), Abs(self.max_step_z))
    ELSE ceil_quotient(Abs(self.end_z_stop - self.end_z), Abs(self.max_step_z))

Area_to_instructions(self, context) ==
    LET tool_radius == Tool_radius(context.tool)
        size_error == Frame_size_error(self, context, "Unable to plane area,", "wider")
        start == compensated_start(self, tool_radius)
        size == compensated_size(self, tool_radius)
        delta_z == self.end_z_stop - self.end_z
        max_step_z == Abs(self.max_step_z)
        layers == Area_layers(self, start)
        start_z == IF delta_z < 0 THEN start.z - delta_z ELSE start.z
        RECURSIVE passes(_)
        passes(layer) ==
            IF layer >= layers THEN <<>>
            ELSE Area_generate_layer_instructions(
                     self, start, size,
                     Min(start_z - layer * max_step_z, context.z_safe),
                     Min(start_z + delta_z - layer * max_step_z, context.z_safe),
                     tool_radius)
                 \o passes(layer + 1)
    IN  IF size_error # <<>> THEN size_error[1]
        ELSE Ok(<< Empty,
                   Comment(<<"Do planing at", format_number(start.x),
                             format_number(start.y), size>>),
                   G0(None, None, Some(context.z_safe)),
                   G0(Some(start.x), Some(start.y), None),
                   G1(None, None, Some(start.z), Some(context.tool.feed_rate)) >>
                \o passes(1)
                \o Area_generate_layer_instructions(
                       self, start, size, Min(self.end_z, context.z_safe),
                       Min(self.end_z_stop, context.z_safe), tool_radius)
                \o << G0(None, None, Some(context.z_safe)) >>)

----------------------------------------------------------------------------
(* Cut, src/src/cuts/mod.rs                                                *)

\* The helpers pass end_z and radius to Circle::new in this order.
Cut_circle(start, end_z, radius, max_step_z) ==
    Circle_new(start, end_z, radius, max_step_z, "None")
Cut_circle_inner(start, end_z, radius, max_step_z) ==
    Circle_new(start, end_z, radius, max_step_z, "Inner")
Cut_circle_outer(start, end_z, radius, max_step_z) ==
    Circle_new(start, end_z, radius, max_step_z, "Outer")

Cut_bounds(self) ==
    CASE self.kind = "Arc" -> Arc_bounds(self)
      [] self.kind = "Line" -> Line_bounds(self)
      [] self.kind = "Path" -> Path_bounds(self)
      [] self.kind = "Circle" -> Circle_bounds(self)
      [] self.kind = "Frame" -> Frame_bounds(self)
      [] self.kind = "Area" -> Area_bounds(self)

Cut_to_instructions(self, context) ==
    CASE self.kind = "Arc" -> Arc_to_instructions(self, context)
      [] self.kind = "Line" -> Line_to_instructions(self, context)
      [] self.kind = "Path" -> Path_to_instructions(self, context)
      [] self.kind = "Circle" -> Circle_to_instructions(self, context)
      [] self.kind = "Frame" -> Frame_to_instructions(self, context)
      [] self.kind = "Area" -> Area_to_instructions(self, context)

----------------------------------------------------------------------------
(* Operation and InnerContext, src/src/program.rs                          *)

Operation_Cut(cut) == [type |-> "Cut", cut |-> cut]
Operation_Empty == [type |-> "Empty"]
Operation_Comment(text) == [type |-> "Comment", text |-> text]
Operation_Message(text) == [type |-> "Message", text |-> text]

Operation_bounds(self) ==
    CASE self.type = "Cut" -> Cut_bounds(self.cut)
      [] self.type = "Empty" -> Bounds_default
      [] self.type = "Comment" -> Bounds_default
      [] self.type = "Message" -> Bounds_default

Operation_to_instructions(self, context) ==
    CASE self.type = "Cut" -> Cut_to_instructions(self.cut, context)
      [] self.type = "Empty" -> Ok(<<Empty>>)
      [] self.type = "Comment" -> Ok(<<Comment(self.text)>>)
      [] self.type = "Message" -> Ok(<<Message(self.text)>>)

InnerContext_new(units, tool, z_safe, z_tool_change) ==
    [units |-> units, tool |-> tool, z_safe |-> z_safe, z_tool_change |-> z_tool_change,
     operations |-> <<>>]

\* A bug: the operations of the other context come first.
InnerContext_merge_prepends(self, context) ==
    IF self.units # context.units
    THEN [self |-> self, result |-> Err(<<"Failed to merge due to mismatching units">>)]
    ELSE IF self.tool # context.tool
    THEN [self |-> self, result |-> Err(<<"Failed to merge due to mismatching tools">>)]
    ELSE [self |-> [self EXCEPT !.z_safe = context.z_safe,
                                !.z_tool_change = context.z_tool_change,
                                !.operations = context.operations \o @],
          result |-> Ok(<<>>)]

InnerContext_merge(self, context) ==
    IF self.units # context.units
    THEN [self |-> self, result |-> Err(<<"Failed to merge due to mismatching units">>)]
    ELSE IF self.tool # context.tool
    THEN [self |-> self, result |-> Err(<<"Failed to merge due to mismatching tools">>)]
    ELSE [self |-> [self EXCEPT !.z_safe = context.z_safe,
                                !.z_tool_change = context.z_tool_change,
                                !.operations = @ \o context.operations],
          result |-> Ok(<<>>)]

InnerContext_append(self, operation) == [self EXCEPT !.operations = Append(@, operation)]

\* One step of the fold of the bounds: a strict comparison per axis and side.
Bounds_fold(bounds, other) ==
    [min |-> Vector3(IF bounds.min.x > other.min.x THEN other.min.x ELSE bounds.min.x,
                     IF bounds.min.y > other.min.y THEN other.min.y ELSE bounds.min.y,
                     IF bounds.min.z > other.min.z THEN other.min.z ELSE bounds.min.z),
     max |-> Vector3(IF bounds.max.x < other.max.x THEN other.max.x ELSE bounds.max.x,
                     IF bounds.max.y < other.max.y THEN other.max.y ELSE bounds.max.y,
                     IF bounds.max.z < other.max.z THEN other.max.z ELSE bounds.max.z)]

InnerContext_bounds(self) ==
    LET RECURSIVE loop(_, _)
        loop(i, bounds) ==
            IF i > Len(self.operations) THEN bounds
            ELSE loop(i + 1, Bounds_fold(bounds, Operation_bounds(self.operations[i])))
    IN  loop(1, Bounds_minmax)

\* A bug: the operations are compiled last first.
InnerContext_to_instructions_reversed(self) ==
    LET RECURSIVE loop(_)
        loop(i) ==
            IF i < 1 THEN Ok(<<>>)
            ELSE append_pass(Operation_to_instructions(self.operations[i], self),
                             loop(i - 1))
    IN  loop(Len(self.operations))

\* The instructions of the operations in their order; the first error ends it.
InnerContext_to_instructions(self) ==
    LET RECURSIVE loop(_)
        loop(i) ==
            IF i > Len(self.operations) THEN Ok(<<>>)
            ELSE append_pass(Operation_to_instructions(self.operations[i], self),
                             loop(i + 1))
    IN  loop(1)

\* A bug: the loop takes the elements out of the vector it visits.
Vec_drain(self) == [self |-> <<>>, items |-> self]

\* for item in &vec: the elements visited, and the vector the loop leaves
Vec_iter(self) == [self |-> self, items |-> self]

\* The context InnerContext::to_instructions leaves, and whether it returned
\* Ok: the operations are visited through &self.operations, each is compiled
\* from a clone of the context, and the first error ends the loop.
InnerContext_after_to_instructions(self) ==
    LET operations == Vec_iter(self.operations)
        RECURSIVE loop(_, _)
        loop(i, context) ==
            IF i > Len(operations.items) THEN [self |-> context, ok |-> TRUE]
            ELSE IF Operation_to_instructions(operations.items[i], context).ok
                 THEN loop(i + 1, context)
                 ELSE [self |-> context, ok |-> FALSE]
    IN  loop(1, [self EXCEPT !.operations = operations.self])

----------------------------------------------------------------------------
(* Program, src/src/program.rs                                             *)

ProgramMeta_to_instructions(self) ==
    << Comment(<<"Name: ", self.name>>),
       Comment(<<"Created on: ", self.created_on>>),
       Comment(<<"Created by: ", self.created_by>>),
       Comment(<<"Generator: ", self.generator>>) >>
    \o [i \in 1..Len(self.description) |-> Comment(<<"Description: ", self.description[i]>>)]

\* ProgramMeta::default() draws a random name and reads the clock, the user
\* and the command line once, at construction; name is the name drawn.
ProgramMeta_default(name) ==
    [name |-> name, description |-> <<>>, created_on |-> "created_on",
     created_by |-> "username@hostname", generator |-> "args"]

Program_new(units, z_safe, z_tool_change, name) ==
    [z_safe |-> z_safe, z_tool_change |-> z_tool_change, meta |-> ProgramMeta_default(name),
     units |-> units, contexts |-> EmptyMap, tool_ordering |-> ToolOrdering_default]

\* self.meta.name = name.into()
Program_set_name(self, name) == [self EXCEPT !.meta.name = name]

\* self.meta.description.push(description.into())
Program_add_description(self, description) ==
    [self EXCEPT !.meta.description = Append(@, description)]

Program_tool_ordering(self, tool) == ordering(self.tool_ordering, tool)

Program_set_tool_ordering(self, tool, order) ==
    [self EXCEPT !.tool_ordering = set_ordering(@, tool, order)]

\* A bug: a context is inserted whether or not the tool has one.
create_context_for_tool_always(self, tool) ==
    [self EXCEPT
        !.contexts = [t \in DOMAIN @ \cup {tool} |->
                         IF t = tool
                         THEN InnerContext_new(self.units, tool, self.z_safe,
                                               self.z_tool_change)
                         ELSE @[t]],
        !.tool_ordering = auto_ordering(@, tool)]

\* A bug: the context is inserted and the tool is given no position.
create_context_without_position(self, tool) ==
    IF tool \notin DOMAIN self.contexts
    THEN [self EXCEPT
            !.contexts = (tool :> InnerContext_new(self.units, tool, self.z_safe,
                                                   self.z_tool_change)) @@ @]
    ELSE self

create_context_if_missing_for_tool(self, tool) ==
    IF tool \notin DOMAIN self.contexts
    THEN [self EXCEPT
            !.contexts = (tool :> InnerContext_new(self.units, tool, self.z_safe,
                                                   self.z_tool_change)) @@ @,
            !.tool_ordering = auto_ordering(@, tool)]
    ELSE self

Program_tools(self) == tools_ordered(self.tool_ordering)

Program_bounds(self) ==
    LET tools == Program_tools(self)
        RECURSIVE loop(_, _)
        loop(i, bounds) ==
            IF i > Len(tools) THEN bounds
            ELSE IF tools[i] \in DOMAIN self.contexts
                 THEN loop(i + 1, Bounds_fold(bounds, InnerContext_bounds(self.contexts[tools[i]])))
                 ELSE loop(i + 1, bounds)
    IN  loop(1, Bounds_minmax)

\* The tool change block of a context (the Empty line before it included).
tool_change(self, tool, context) ==
    << Empty,
       Comment(<<"Tool change: ", tool>>),
       IF context.units = "Metric" THEN G21 ELSE G20,
       G0(None, None, Some(context.z_tool_change)),
       M5,
       M6(Program_tool_ordering(self, tool)[1]),
       S(tool.spindle_speed),
       IF tool.direction = "Clockwise" THEN M3 ELSE M4,
       G4(scale(tool.spindle_speed, 0, 50000, 3, 20)) >>

\* The head of the raw list: the meta comments, the work area, Empty, G17.
program_header(self) ==
    LET bounds == Program_bounds(self)
        size == Bounds_size(bounds)
    IN  ProgramMeta_to_instructions(self.meta)
        \o << Comment(<<"Workarea", format_number(size.x), format_number(size.y),
                        format_number(size.z), format_number(bounds.min.x),
                        format_number(bounds.min.y), format_number(bounds.max.z),
                        format_number(self.z_safe), format_number(self.z_tool_change),
                        self.units>>),
              Empty,
              G17 >>

\* The end of the raw list.
program_end(self) == << G0(None, None, Some(self.z_tool_change)), Empty, M2 >>

\* The raw instruction list: header, then for every tool in position order
\* that has a context its tool change and its instructions, then the end.
raw_instructions_of(self) ==
    LET tools == Program_tools(self)
        RECURSIVE loop(_)
        loop(i) ==
            IF i > Len(tools) THEN Ok(program_end(self))
            ELSE IF tools[i] \in DOMAIN self.contexts
                 THEN append_pass(
                        append_result(tool_change(self, tools[i], self.contexts[tools[i]]),
                                      InnerContext_to_instructions(self.contexts[tools[i]])),
                        loop(i + 1))
                 ELSE loop(i + 1)
    IN  append_result(program_header(self), loop(1))

\* The indices (from 1) of the raw instructions the trimming loop pushes, in
\* the order of the loop. workplane starts as Empty and is assigned every
\* plane code the loop reaches that differs from it, so that at any index it
\* is the plane code nearest before the index, or Empty. The loop pushes an
\* instruction unless it is a plane code equal to workplane (the first
\* continue) or it is equal to the next raw instruction (the second).
trim_kept(raw) ==
    LET raw_length == Len(raw)
        planes == {index \in 1..raw_length :
                      raw[index] = G17 \/ raw[index] = G18 \/ raw[index] = G19}
        workplane(index) ==
            LET before == {earlier \in planes : earlier < index}
            IN  IF before = {} THEN Empty
                ELSE raw[CHOOSE last \in before : \A earlier \in before : earlier <= last]
        pushed(index) ==
            /\ ~(index \in planes /\ raw[index] = workplane(index))
            /\ ~(index < raw_length /\ Instruction_eq(raw[index], raw[index + 1]))
    IN  SelectSeq([index \in 1..raw_length |-> index], pushed)

\* "Trim duplicated instructions": the instructions pushed, in order.
trim_duplicated_instructions(raw) ==
    LET kept == trim_kept(raw) IN [n \in 1..Len(kept) |-> raw[kept[n]]]

\* The raw list trimmed, or the error that ended its compilation
trimmed(raw) == IF raw.ok THEN Ok(trim_duplicated_instructions(raw.value)) ELSE raw

\* A bug: z_safe is compared with the lowest point of the bounds.
Program_to_instructions_min_z(self) ==
    LET bounds == Program_bounds(self)
    IN  IF self.z_tool_change < self.z_safe
        THEN Err(<<"z_tool_change must be larger than or equal to the z_safe value",
                   self.z_tool_change, self.z_safe, self.units>>)
        ELSE IF self.z_safe < bounds.min.z
        THEN Err(<<"z_safe must be larger than or equal to the workpiece max z value",
                   self.z_safe, bounds.max.z, self.units>>)
        ELSE trimmed(raw_instructions_of(self))

Program_to_instructions(self) ==
    LET bounds == Program_bounds(self)
    IN  IF self.z_tool_change < self.z_safe
        THEN Err(<<"z_tool_change must be larger than or equal to the z_safe value",
                   self.z_tool_change, self.z_safe, self.units>>)
        ELSE IF self.z_safe < bounds.max.z
        THEN Err(<<"z_safe must be larger than or equal to the workpiece max z value",
                   self.z_safe, bounds.max.z, self.units>>)
        ELSE trimmed(raw_instructions_of(self))

\* The program Program::to_instructions leaves. contexts and tool_ordering
\* are RefCells that a call on &self could write through; the call takes
\* contexts.borrow() for its whole length, reads the tools, the heights and
\* the bounds, returns on a height error, and then calls to_instructions on
\* the context of each tool in position order until one returns an error.
Program_after_to_instructions(self) ==
    LET tools == Program_tools(self)
        bounds == Program_bounds(self)
        RECURSIVE loop(_, _)
        loop(i, program) ==
            IF i > Len(tools) THEN program
            ELSE IF tools[i] \notin DOMAIN program.contexts THEN loop(i + 1, program)
            ELSE LET after == InnerContext_after_to_instructions(program.contexts[tools[i]])
                     left == [program EXCEPT !.contexts[tools[i]] = after.self]
                 IN  IF after.ok THEN loop(i + 1, left) ELSE left
    IN  IF self.z_tool_change < self.z_safe \/ self.z_safe < bounds.max.z
        THEN self
        ELSE loop(1, self)

\* A call that aborts the process: unwrap() of None.
Panic(message) == [ok |-> FALSE, panic |-> message]

\* A bug: the heights of the merged program replace those of the destination.
Program_merge_adopts_heights(self, program) ==
    IF self.units # program.units
    THEN [self |-> self, result |-> Err(<<"Failed to merge due to mismatching units">>)]
    ELSE LET tools == Program_tools(program)
             adopted == [self EXCEPT !.z_safe = program.z_safe,
                                     !.z_tool_change = program.z_tool_change]
             RECURSIVE create(_, _)
             create(i, s) ==
                 IF i > Len(tools) THEN s
                 ELSE create(i + 1, create_context_if_missing_for_tool(s, tools[i]))
             RECURSIVE loop(_, _)
             loop(i, s) ==
                 IF i > Len(tools) THEN [self |-> s, result |-> Ok(<<>>)]
                 ELSE IF tools[i] \notin DOMAIN program.contexts
                 THEN [self |-> s,
                       result |-> Panic(<<"called Option::unwrap() on a None value">>)]
                 ELSE LET m == InnerContext_merge(s.contexts[tools[i]],
                                                  program.contexts[tools[i]])
                      IN  IF m.result.ok
                          THEN loop(i + 1, [s EXCEPT !.contexts[tools[i]] = m.self])
                          ELSE [self |-> s, result |-> m.result]
         IN  loop(1, create(1, adopted))

\* A bug: the heights are lowered before the units are compared.
Program_merge_heights_first(self, program) ==
    LET lowered == [self EXCEPT !.z_safe = Min(@, program.z_safe),
                                !.z_tool_change = Min(@, program.z_tool_change)]
    IN  IF self.units # program.units
        THEN [self |-> lowered, result |-> Err(<<"Failed to merge due to mismatching units">>)]
        ELSE [self |-> lowered, result |-> Ok(<<>>)]

Program_merge(self, program) ==
    IF self.units # program.units
    THEN [self |-> self, result |-> Err(<<"Failed to merge due to mismatching units">>)]
    ELSE LET tools == Program_tools(program)
             lowered == [self EXCEPT !.z_safe = Min(@, program.z_safe),
                                     !.z_tool_change = Min(@, program.z_tool_change)]
             RECURSIVE create(_, _)
             create(i, s) ==
                 IF i > Len(tools) THEN s
                 ELSE create(i + 1, create_context_if_missing_for_tool(s, tools[i]))
             RECURSIVE loop(_, _)
             loop(i, s) ==
                 IF i > Len(tools) THEN [self |-> s, result |-> Ok(<<>>)]
                 ELSE IF tools[i] \notin DOMAIN program.contexts
                 THEN [self |-> s,
                       result |-> Panic(<<"called Option::unwrap() on a None value">>)]
                 ELSE LET m == InnerContext_merge(s.contexts[tools[i]],
                                                  program.contexts[tools[i]])
                      IN  IF m.result.ok
                          THEN loop(i + 1, [s EXCEPT !.contexts[tools[i]] = m.self])
                          ELSE [self |-> s, result |-> m.result]
         IN  loop(1, create(1, lowered))

\* Context::merge through the handle Program::context returned: the context
\* of tool in self takes over the context of other_tool in program.
Context_merge(self, tool, program, other_tool) ==
    LET m == InnerContext_merge(self.contexts[tool], program.contexts[other_tool])
    IN  [self |-> [self EXCEPT !.contexts[tool] = m.self], result |-> m.result]

\* Context::append through the handle Program::context returned.
Context_append(self, tool, operation) ==
    [self EXCEPT !.contexts[tool] = InnerContext_append(@, operation)]

----------------------------------------------------------------------------
(* Camotics, src/src/camotics.rs                                           *)

CamoticsTool_from_tool(tool, number) ==
    [units |-> tool.units,
     angle |-> IF tool.shape = "Conical" THEN Some(tool.angle) ELSE None,
     length |-> tool.length, diameter |-> tool.diameter, number |-> number,
     shape |-> tool.shape]

\* The tools are numbered index + 1 in the order of the vector.
Camotics_new(name, tools, workpiece, resolution) ==
    [name |-> name, units |-> "Metric", resolution_mode |-> "Manual", resolution |-> resolution,
     tools |-> [number \in 1..Len(tools) |-> CamoticsTool_from_tool(tools[number], number)],
     workpiece |-> [automatic |-> FALSE, margin |-> 0, bounds |-> workpiece],
     files |-> << <<name, ".gcode">> >>]

Camotics_from_program(name, program, resolution) ==
    Camotics_new(name, Program_tools(program), Program_bounds(program), resolution)

----------------------------------------------------------------------------
(* The inputs of the model.                                                *)

ProgramIds == {1, 2}
ProgramOrders == 0..MaxProgramOrder
\* The tools each program of a merge is given by its caller.
MergeTools == <<{Tool1}, {Tool1, Tool2}>>
\* The positions given to the tools of the program merged into another.
MergeOrders == {1, 2}

\* The heights passed to Program::new.
ZSafeValues == {-1, 2}
ZToolChangeValues == {0, 2}
\* The heights (z_safe, z_tool_change) of the program merged into one of heights 2 and 2.
MergeHeights == {<<-1, 0>>, <<3, 4>>}

OpEmpty == Operation_Empty
OpComment == Operation_Comment(<<"note">>)
OpMessage == Operation_Message(<<"note">>)
OpLine == Operation_Cut(Line_new(Vector3(0, 0, 2), Vector3(1, 1, -1)))
OpArc == Operation_Cut(Arc_new(Vector3(1, 0, 0), Vector3(-1, 0, 0), Vector3(0, 0, 0),
                               "Y", "Clockwise"))
OpArcZ == Operation_Cut(Arc_new(Vector3(0, 1, 0), Vector3(0, -1, 0), Vector3(0, 0, 0),
                                "Z", "Counterclockwise"))
\* from and to are not at the same distance of the center
OpArcUnequal == Operation_Cut(Arc_new(Vector3(1, 0, 0), Vector3(2, 0, 0), Vector3(0, 0, 0),
                                      "X", "Clockwise"))

Operations == {OpEmpty, OpComment, OpMessage, OpLine, OpArc, OpArcZ, OpArcUnequal}
\* A path of one point at its own start, cut in one layer and the last pass:
\* total_distance is 0.0 and each pass is one G1 whose Z is 0.0 / 0.0.
OpPathNowhere == Operation_Cut(Path_new(Vector3(0, 0, 1), <<Segment_point(0, 0)>>, 0, 1))
TrimOperations == Operations \cup {OpPathNowhere}
\* The names given with set_name and the descriptions added.
ProgramNames == {"p1", "renamed"}
Descriptions == {"described"}
ReorderOperations == {OpComment, OpLine}
MergeOperations == {OpEmpty, OpLine}

\* The operations of the program whose bounds are taken: two cuts that do not
\* reach the origin on any axis, one that does, and a comment.
OpLineAway == Operation_Cut(Line_new(Vector3(1, 2, -3), Vector3(4, 3, -2)))
OpPathAway == Operation_Cut(Path_new(Vector3(10, 20, 3),
                                         <<Segment_line(Vector2(0, 0), Vector2(3, 4))>>, 1, 2))
BoundsOperations == {OpComment, OpLine, OpLineAway, OpPathAway}

\* The tools of the program a cut is compiled in on its own.
CutTools == {Tool1, Tool2}

\* Segments of paths. Every distance the code takes a root of is whole.
PointOrigin == Segment_point(0, 0)
Point34 == Segment_point(3, 4)
Point68 == Segment_point(6, 8)
LineOut == Segment_line(Vector2(0, 0), Vector2(3, 4))
LineBack == Segment_line(Vector2(3, 4), Vector2(0, 0))
LineLong == Segment_line(Vector2(0, 0), Vector2(6, 8))
\* from and to at the distance 1 of the center
ArcHalf == Segment_arc(Vector2(-1, 0), Vector2(1, 0), Vector2(0, 0), "Clockwise")
\* from and to at the distance 5 of the center
ArcBack == Segment_arc(Vector2(6, 8), Vector2(0, 0), Vector2(3, 4), "Counterclockwise")
\* from at sqrt(80) = 8.944 and to at 9 of the center: 0.0000557 apart
ArcNear == Segment_arc(Vector2(-8, 4), Vector2(9, 0), Vector2(0, 0), "Clockwise")
\* from at sqrt(8) = 2.828 and to at 3 of the center: 0.000172 apart
ArcOver == Segment_arc(Vector2(2, 2), Vector2(3, 0), Vector2(0, 0), "Clockwise")
\* from at 1 and to at 3 of the center
ArcUnequal == Segment_arc(Vector2(1, 0), Vector2(3, 0), Vector2(0, 0), "Clockwise")

SegmentLists ==
    { <<>>, <<PointOrigin>>, <<Point34>>, <<Point34, Point68>>, <<PointOrigin, Point34>>,
      <<LineOut>>, <<LineBack>>, <<LineOut, LineBack>>, <<ArcHalf>>, <<ArcNear>>,
      <<LineLong, ArcBack>>, <<ArcOver>>, <<ArcUnequal>>, <<LineOut, ArcUnequal>>,
      <<ArcUnequal, LineOut>> }

PathInputs ==
    { Path_new(Vector3(x, x + x, z), segments, 0, max_step_z) :
        x \in {0, 10}, z \in (-1)..MaxStartZ, segments \in SegmentLists,
        max_step_z \in {2, -2} }

\* Circle::new with every compensation, and Circle::drill. An Inner circle
\* of radius 2, 3 or 9 has the cut radius 0, 1 or 7 with the tool of radius 2,
\* and one of radius 8 or 9 the cut radius 0 or just below 1 with the tool of
\* radius 8: both are drilled.
CircleInputs ==
    { Circle_new(Vector3(x, x + x, z), radius, 0, max_step_z, compensation) :
        x \in {0, 10}, z \in (-1)..MaxStartZ, radius \in {-3, 0, 1, 2, 3, 8, 9},
        max_step_z \in {2, -2}, compensation \in {"None", "Inner", "Outer"} }
    \cup { Circle_drill(Vector3(x, x + x, z), 0) : x \in {0, 10}, z \in (-1)..MaxStartZ }

\* Arcs whose from and to are at the same distance of the center (1, and 5
\* off the plane), within the tolerance (sqrt(80) and 9), just beyond it
\* (sqrt(8) and 3) and far beyond it (1 and 3).
ArcEnds ==
    { <<Vector3(1, 0, 0), Vector3(-1, 0, 0)>>, <<Vector3(0, 0, 5), Vector3(3, 4, 0)>>,
      <<Vector3(-8, 4, 0), Vector3(9, 0, 0)>>, <<Vector3(0, 8, 4), Vector3(0, 0, 9)>>,
      <<Vector3(2, 2, 0), Vector3(3, 0, 0)>>, <<Vector3(1, 0, 0), Vector3(3, 0, 0)>> }

ArcInputs ==
    { Arc_new(ends[1], ends[2], Vector3(0, 0, 0), axis, direction) :
        ends \in ArcEnds, axis \in {"X", "Y", "Z"},
        direction \in {"Clockwise", "Counterclockwise"} }

\* Declared sizes of frames and areas: negative, below the diameter 4 of one
\* tool, between the two diameters, and at or above the diameter 16.
Sizes == {-6, 3, 4, 6, 16, 20}

FrameInputs ==
    { Frame_new(Vector3(10, 20, z), Vector2(size_x, size_y), 0, max_step_z, compensation) :
        z \in (-1)..MaxStartZ, size_x \in Sizes, size_y \in Sizes,
        max_step_z \in {4, -4}, compensation \in {"None", "Inner", "Outer"} }

AreaInputs ==
    { Area_new(Vector3(10, 20, z), Vector2(size_x, size_y), 0, max_step_z, compensation) :
        z \in (-1)..MaxStartZ, size_x \in Sizes, size_y \in Sizes,
        max_step_z \in {2, -2}, compensation \in {"None", "Inner", "Outer"} }

LineInputs ==
    { Line_new(Vector3(from_x, 0, from_z), Vector3(to_x, 1, to_z)) :
        from_x \in {0, 3}, to_x \in {0, 3}, from_z \in {-1, 2}, to_z \in {-1, 2} }

CutInputs ==
    PathInputs \cup CircleInputs \cup ArcInputs \cup FrameInputs \cup AreaInputs
        \cup LineInputs

\* The inputs of the model: every quotient a frame or an area takes for its
\* tool is a whole number of thousandths.
whole_quotients(cut, tool) ==
    LET size == compensated_size(cut, Tool_radius(tool))
        fits == cut.size.x >= Tool_diameter(tool) /\ cut.size.y >= Tool_diameter(tool)
        circumference == (size.x + size.y) * 2
    IN  CASE cut.kind = "Frame" ->
               IF ~fits \/ circumference = 0 \/ Frame_layers(cut) = 0 THEN TRUE
               ELSE /\ (size.x * Abs(cut.max_step_z)) % circumference = 0
                    /\ (size.y * Abs(cut.max_step_z)) % circumference = 0
          [] cut.kind = "Area" ->
               IF ~fits \/ size.x <= Tool_radius(tool) * 2 THEN TRUE
               ELSE IF Area_passes(size.y, Tool_radius(tool)) = 0 THEN TRUE
               ELSE size.y % Area_passes(size.y, Tool_radius(tool)) = 0
          [] OTHER -> TRUE

RECURSIVE operation_count_of(_, _)
operation_count_of(program, tools) ==
    IF tools = {} THEN 0
    ELSE LET t == CHOOSE t \in tools : TRUE
         IN  Len(program.contexts[t].operations) + operation_count_of(program, tools \ {t})

operation_count(program) == operation_count_of(program, DOMAIN program.contexts)
total_operations == operation_count(programs[1]) + operation_count(programs[2])

\* What a call without a result leaves in returned.
Unit == [call |-> "unit", program |-> 0, again |-> FALSE, result |-> Ok(<<>>)]

----------------------------------------------------------------------------
(* The calls on a Program.                                                 *)

\* program.context(tool)
Context(p, tool) ==
    /\ programs' = [programs EXCEPT ![p] = create_context_if_missing_for_tool(@, tool)]
    /\ returned' = Unit
    /\ UNCHANGED tool_ordering

\* program.set_name(name)
SetName(p, name) ==
    /\ programs' = [programs EXCEPT ![p] = Program_set_name(@, name)]
    /\ returned' = Unit
    /\ UNCHANGED tool_ordering

\* program.add_description(description)
AddDescription(p, description) ==
    /\ Len(programs[p].meta.description) < MaxDescriptions
    /\ programs' = [programs EXCEPT ![p] = Program_add_description(@, description)]
    /\ returned' = Unit
    /\ UNCHANGED tool_ordering

\* program.context(tool).append(operation), on a context that exists
ContextAppend(p, tool, operation) ==
    /\ tool \in DOMAIN programs[p].contexts
    /\ total_operations < MaxOps
    /\ programs' = [programs EXCEPT ![p] = Context_append(@, tool, operation)]
    /\ returned' = Unit
    /\ UNCHANGED tool_ordering

\* program.extend(&tool, |_| Ok(())): the action adds nothing
Extend(p, tool) ==
    /\ programs' = [programs EXCEPT ![p] = create_context_if_missing_for_tool(@, tool)]
    /\ returned' = [call |-> "extend", program |-> p, again |-> FALSE, result |-> Ok(<<>>)]
    /\ UNCHANGED tool_ordering

\* context.merge(other), context a handle of programs[p] for tool and other a
\* handle of programs[q] for other_tool, both obtained from Program::context
ContextMerge(p, tool, q, other_tool) ==
    /\ p # q
    /\ tool \in DOMAIN programs[p].contexts
    /\ other_tool \in DOMAIN programs[q].contexts
    /\ Len(programs[p].contexts[tool].operations)
          + Len(programs[q].contexts[other_tool].operations) <= MaxContextOps
    /\ LET m == Context_merge(programs[p], tool, programs[q], other_tool)
       IN  /\ programs' = [programs EXCEPT ![p] = m.self]
           /\ returned' = [call |-> "context_merge", program |-> p, again |-> FALSE,
                           result |-> m.result]
    /\ UNCHANGED tool_ordering

\* program.set_tool_ordering(&tool, order)
SetToolOrdering(p, tool, order) ==
    /\ Len(programs[p].tool_ordering.tools) < MaxProgramToolsLen
    /\ programs' = [programs EXCEPT ![p] = Program_set_tool_ordering(@, tool, order)]
    /\ returned' = Unit
    /\ UNCHANGED tool_ordering

\* program.to_instructions(): what it returns and the program it leaves. The
\* ToolOrdering that stands alone is no part of the program.
ToInstructions(p) ==
    /\ returned' = [call |-> "to_instructions", program |-> p,
                    again |-> (returned.call = "to_instructions" /\ returned.program = p),
                    result |-> Program_to_instructions(programs[p])]
    /\ programs' = [programs EXCEPT ![p] = Program_after_to_instructions(@)]
    /\ UNCHANGED tool_ordering

\* programs[p].merge(&programs[q])
Merge(p, q) ==
    /\ p # q
    /\ operation_count(programs[p]) + operation_count(programs[q]) <= MaxMergeOps
    /\ LET m == Program_merge(programs[p], programs[q])
       IN  /\ programs' = [programs EXCEPT ![p] = m.self]
           /\ returned' = [call |-> "merge", program |-> p, again |-> FALSE,
                           result |-> m.result]
    /\ UNCHANGED tool_ordering

\* Camotics::from_program(name, programs[p].clone(), 1.0)
CamoticsFromProgram(p) ==
    /\ returned' = [call |-> "from_program", program |-> p, again |-> FALSE,
                    result |-> Ok(Camotics_from_program("project", programs[p], 1))]
    /\ UNCHANGED <<programs, tool_ordering>>

\* The cut of the program of the specification of the cuts, and its context
CutContext(p) ==
    programs[p].contexts[CHOOSE tool \in DOMAIN programs[p].contexts : TRUE]
CutOf(p) == CutContext(p).operations[1].cut

\* cut.to_instructions(context), as Operation::to_instructions calls it
CutToInstructions(p) ==
    /\ returned' = [call |-> "cut_to_instructions", program |-> p, again |-> FALSE,
                    result |-> Cut_to_instructions(CutOf(p), CutContext(p))]
    /\ UNCHANGED <<programs, tool_ordering>>

\* cut.bounds()
CutBounds(p) ==
    /\ returned' = [call |-> "cut_bounds", program |-> p, again |-> FALSE,
                    result |-> Ok(Cut_bounds(CutOf(p)))]
    /\ UNCHANGED <<programs, tool_ordering>>

\* Cut::circle, Cut::circle_inner or Cut::circle_outer called with the start,
\* end_z, radius and max_step_z of the circle of the program
CutCircle(p) ==
    /\ CutOf(p).kind = "Circle"
    /\ returned' = [call |-> "cut_circle", program |-> p, again |-> FALSE,
                    result |-> Ok(CASE CutOf(p).compensation = "None" ->
                                         Cut_circle(CutOf(p).start, CutOf(p).end_z,
                                                    CutOf(p).radius, CutOf(p).max_step_z)
                                    [] CutOf(p).compensation = "Inner" ->
                                         Cut_circle_inner(CutOf(p).start, CutOf(p).end_z,
                                                          CutOf(p).radius, CutOf(p).max_step_z)
                                    [] CutOf(p).compensation = "Outer" ->
                                         Cut_circle_outer(CutOf(p).start, CutOf(p).end_z,
                                                          CutOf(p).radius,
                                                          CutOf(p).max_step_z))]
    /\ UNCHANGED <<programs, tool_ordering>>

\* program.bounds()
ProgramBounds(p) ==
    /\ returned' = [call |-> "bounds", program |-> p, again |-> FALSE,
                    result |-> Ok(Program_bounds(programs[p]))]
    /\ UNCHANGED <<programs, tool_ordering>>

----------------------------------------------------------------------------
(* The calls on a stand-alone ToolOrdering.                                *)

AutoOrdering(tool) ==
    /\ tool_ordering' = auto_ordering(tool_ordering, tool)
    /\ UNCHANGED <<programs, returned>>

SetOrdering(tool, order) ==
    /\ Len(tool_ordering.tools) < MaxToolsLen
    /\ tool_ordering' = set_ordering(tool_ordering, tool, order)
    /\ UNCHANGED <<programs, returned>>

----------------------------------------------------------------------------
(* Specifications.                                                         *)

\* One program, built by context / append / set_tool_ordering and compiled.
Init ==
    /\ \E units \in AllUnits, z_safe \in ZSafeValues, z_tool_change \in ZToolChangeValues :
          programs = [p \in ProgramIds |->
                         IF p = 1 THEN Program_new(units, z_safe, z_tool_change, "p1")
                         ELSE Program_new("Metric", 2, 2, "p2")]
    /\ returned = Unit
    /\ tool_ordering = ToolOrdering_default

Next ==
    \/ \E tool \in ProgramTools : Context(1, tool)
    \/ \E tool \in ProgramTools, operation \in Operations : ContextAppend(1, tool, operation)
    \/ ToInstructions(1)

Spec == Init /\ [][Next]_vars

\* One program, renamed and described, compiled from operations among which
\* a path without length.
NextTrim ==
    \/ \E name \in ProgramNames : SetName(1, name)
    \/ \E description \in Descriptions : AddDescription(1, description)
    \/ \E tool \in ProgramTools : Context(1, tool)
    \/ \E tool \in ProgramTools, operation \in TrimOperations :
          ContextAppend(1, tool, operation)
    \/ ToInstructions(1)

SpecTrim == Init /\ [][NextTrim]_vars

\* One program whose tools are reordered with set_tool_ordering, and compiled.
InitReorder ==
    /\ programs = [p \in ProgramIds |-> Program_new("Metric", 2, 2, "p")]
    /\ returned = Unit
    /\ tool_ordering = ToolOrdering_default

NextReorder ==
    \/ \E tool \in ProgramTools : Context(1, tool)
    \/ \E tool \in ProgramTools, operation \in ReorderOperations :
          total_operations < MaxReorderOps /\ ContextAppend(1, tool, operation)
    \/ \E tool \in ProgramTools, order \in ProgramOrders : SetToolOrdering(1, tool, order)
    \/ ToInstructions(1)
    \/ CamoticsFromProgram(1)

SpecReorder == InitReorder /\ [][NextReorder]_vars

\* Two programs, the second merged into the first.
InitMerge ==
    /\ \E units \in AllUnits, heights \in MergeHeights :
          programs = [p \in ProgramIds |->
                         IF p = 1 THEN Program_new("Metric", 2, 2, "p1")
                         ELSE Program_new(units, heights[1], heights[2], "p2")]
    /\ returned = Unit
    /\ tool_ordering = ToolOrdering_default

NextMerge ==
    \/ \E p \in ProgramIds : \E tool \in MergeTools[p] : Context(p, tool)
    \/ \E p \in ProgramIds : \E tool \in MergeTools[p], operation \in MergeOperations :
          ContextAppend(p, tool, operation)
    \/ \E tool \in ProgramTools, order \in MergeOrders :
          Len(programs[2].tool_ordering.tools) < MaxMergeToolsLen /\ SetToolOrdering(2, tool, order)
    \/ Merge(1, 2)

SpecMerge == InitMerge /\ [][NextMerge]_vars

\* A ToolOrdering on its own.
InitOrdering ==
    /\ programs = [p \in ProgramIds |-> Program_new("Metric", 2, 2, "p")]
    /\ returned = Unit
    /\ tool_ordering = ToolOrdering_default

NextOrdering ==
    \/ \E tool \in Tools : AutoOrdering(tool)
    \/ \E tool \in Tools, order \in Orders : SetOrdering(tool, order)

SpecOrdering == InitOrdering /\ [][NextOrdering]_vars

\* One cut in the context of one tool: its instructions and its bounds.
InitCuts ==
    /\ \E cut \in CutInputs, tool \in CutTools :
          /\ whole_quotients(cut, tool)
          /\ programs = [p \in ProgramIds |->
                         IF p = 1
                         THEN Context_append(
                                  create_context_if_missing_for_tool(
                                      Program_new("Metric", 10, 50, "p1"),
                                      tool),
                                  tool, Operation_Cut(cut))
                         ELSE Program_new("Metric", 2, 2, "p2")]
    /\ returned = Unit
    /\ tool_ordering = ToolOrdering_default

NextCuts ==
    \/ CutToInstructions(1)
    \/ CutBounds(1)
    \/ CutCircle(1)

SpecCuts == InitCuts /\ [][NextCuts]_vars

\* Two programs whose contexts are opened, extended and merged one by one,
\* and the second program merged into the first.
InitContexts ==
    /\ \E heights \in MergeHeights :
          programs = [p \in ProgramIds |->
                         IF p = 1 THEN Program_new("Metric", 2, 2, "p1")
                         ELSE Program_new("Metric", heights[1], heights[2], "p2")]
    /\ returned = Unit
    /\ tool_ordering = ToolOrdering_default

NextContexts ==
    \/ \E p \in ProgramIds : \E tool \in MergeTools[p] : Context(p, tool)
    \/ \E p \in ProgramIds : \E tool \in MergeTools[p] : Extend(p, tool)
    \/ \E p \in ProgramIds : \E tool \in MergeTools[p] : ContextAppend(p, tool, OpLine)
    \/ \E p, q \in ProgramIds : \E tool \in MergeTools[p], other_tool \in MergeTools[q] :
          ContextMerge(p, tool, q, other_tool)
    \/ Merge(1, 2)

SpecContexts == InitContexts /\ [][NextContexts]_vars

\* One program whose tools are reordered, and whose bounds are taken.
InitBounds ==
    /\ programs = [p \in ProgramIds |-> Program_new("Metric", 2, 2, "p")]
    /\ returned = Unit
    /\ tool_ordering = ToolOrdering_default

NextBounds ==
    \/ \E tool \in ProgramTools : Context(1, tool)
    \/ \E tool \in ProgramTools, operation \in BoundsOperations :
          total_operations < MaxBoundsOps /\ ContextAppend(1, tool, operation)
    \/ \E tool \in ProgramTools, order \in ProgramOrders : SetToolOrdering(1, tool, order)
    \/ ProgramBounds(1)

SpecBounds == InitBounds /\ [][NextBounds]_vars

\* Two programs whose tools get contexts and positions in any order, merged
\* into one another and compiled.
InitPositions ==
    /\ programs = [p \in ProgramIds |-> Program_new("Metric", 2, 2, "p")]
    /\ returned = Unit
    /\ tool_ordering = ToolOrdering_default

NextPositions ==
    \/ \E p \in ProgramIds, tool \in ProgramTools : Extend(p, tool)
    \/ \E p \in ProgramIds, tool \in ProgramTools, order \in MergeOrders :
          Len(programs[p].tool_ordering.tools) < MaxPositionToolsLen
          /\ SetToolOrdering(p, tool, order)
    \/ \E p, q \in ProgramIds : Merge(p, q)
    \/ ToInstructions(1)

SpecPositions == InitPositions /\ [][NextPositions]_vars

\* One program with one cut of any kind, to which lines are appended, and
\* which is compiled cut by cut and as a whole.
NextRetracts ==
    \/ \E tool \in CutTools : ContextAppend(1, tool, OpLine)
    \/ CutToInstructions(1)
    \/ ToInstructions(1)

SpecRetracts == InitCuts /\ [][NextRetracts]_vars

----------------------------------------------------------------------------
(* Properties of ToolOrdering, checked under SpecOrdering.                 *)

\* The tools of a vector, and the index of the first use of a tool in it.
ToolsOf(tools) == {tools[i] : i \in 1..Len(tools)}
FirstUse(tools, tool) ==
    CHOOSE i \in 1..Len(tools) : tools[i] = tool /\ \A j \in 1..(i - 1) : tools[j] # tool

\* The lowest position, from 1, that is not in the set taken.
LowestFree(taken) ==
    CHOOSE n \in 1..(Cardinality(taken) + 1) : n \notin taken /\ \A m \in 1..(n - 1) : m \in taken

\* The position left to a tool without explicit position when the tools
\* without explicit position take, in first-use order, the lowest position
\* that no explicit entry and no earlier such tool holds.
RenumberedPosition(to, tool) ==
    LET earlier == {u \in DOMAIN to.ordering \ DOMAIN to.explicit_ordering :
                      FirstUse(to.tools, u) < FirstUse(to.tools, tool)}
    IN  LowestFree(Values(to.explicit_ordering) \cup {to.ordering[u] : u \in earlier})

\* C5: after set_ordering(t, n), ordering(t) = max(n, 1), for a new tool and
\* for a known one; another tool that held max(n, 1) before the call still
\* has a position: the lowest one free when the tools without explicit
\* position are renumbered in first-use order.
C5_SetOrderingPosition ==
    [][\A tool \in Tools, order \in Orders :
          SetOrdering(tool, order) =>
            /\ ordering(tool_ordering', tool) = Some(Max(order, 1))
            /\ \A other \in DOMAIN tool_ordering.ordering \ {tool} :
                  tool_ordering.ordering[other] = Max(order, 1) =>
                    /\ other \in DOMAIN tool_ordering'.ordering
                    /\ other \notin DOMAIN tool_ordering'.explicit_ordering
                    /\ tool_ordering'.ordering[other] = RenumberedPosition(tool_ordering', other)
      ]_vars

\* Tool1 was used first and held position 1; set_ordering(Tool2, 1 or 0) on
\* the known Tool2 took position 1 and Tool1 moved to 2.
C5_Witness ==
    /\ tool_ordering.tools = <<Tool1, Tool2, Tool2>>
    /\ tool_ordering.explicit_ordering = (Tool2 :> 1)
    /\ tool_ordering.ordering = (Tool1 :> 2) @@ (Tool2 :> 1)

PositionsDense(to) == Values(to.ordering) = 1..Cardinality(DOMAIN to.ordering)

\* C6 as stated: the positions of the known tools are exactly
\* {1, ..., number of distinct tools}.
C6_PositionsDense == PositionsDense(tool_ordering)

\* C6 amended: the positions are >= 1, every position below that of a tool
\* without explicit position is held by a tool, and the positions are
\* {1, ..., number of distinct tools} exactly when no explicitly set
\* position is higher than the number of distinct tools.
C6_PositionsDenseUpToExplicit ==
    LET to == tool_ordering
        n == Cardinality(DOMAIN to.ordering)
    IN  /\ \A t \in DOMAIN to.ordering : to.ordering[t] >= 1
        /\ \A t \in DOMAIN to.ordering \ DOMAIN to.explicit_ordering :
              \A m \in 1..(to.ordering[t] - 1) : m \in Values(to.ordering)
        /\ PositionsDense(to) <=> (\A t \in DOMAIN to.explicit_ordering :
                                      to.explicit_ordering[t] <= n)

\* The end of test_set_ordering: two tools at the positions 3 and 2.
C6_Witness ==
    /\ tool_ordering.ordering = (Tool1 :> 3) @@ (Tool2 :> 2)
    /\ tool_ordering.explicit_ordering = (Tool1 :> 3) @@ (Tool2 :> 2)

OrderingWellFormed(to) ==
    LET listed == tools_ordered(to)
    IN  /\ DOMAIN to.ordering = ToolsOf(to.tools)
        /\ \A t, u \in DOMAIN to.ordering : to.ordering[t] = to.ordering[u] => t = u
        /\ Len(listed) = Cardinality(ToolsOf(to.tools))
        /\ ToolsOf(listed) = ToolsOf(to.tools)
        /\ \A i, j \in 1..Len(listed) : i < j => to.ordering[listed[i]] < to.ordering[listed[j]]

\* C7: after every call every tool ever added has one position, no two tools
\* share a position and tools_ordered lists each tool once, by ascending
\* position; auto_ordering gives a new tool the lowest position no other
\* tool holds and changes nothing for a known tool.
C7_OnePositionPerTool ==
    [][/\ OrderingWellFormed(tool_ordering')
       /\ \A tool \in Tools :
             AutoOrdering(tool) =>
                IF tool \in ToolsOf(tool_ordering.tools)
                THEN tool_ordering' = tool_ordering
                ELSE /\ tool_ordering'.ordering[tool] = LowestFree(Values(tool_ordering.ordering))
                     /\ \A u \in DOMAIN tool_ordering.ordering :
                           tool_ordering'.ordering[u] = tool_ordering.ordering[u]
      ]_vars

\* test_mix_set_and_auto_ordering: auto Tool1, set Tool2 at 1, auto Tool3.
C7_Witness ==
    /\ tool_ordering.tools = <<Tool1, Tool2, Tool3>>
    /\ tool_ordering.explicit_ordering = (Tool2 :> 1)
    /\ tool_ordering.ordering = (Tool1 :> 2) @@ (Tool2 :> 1) @@ (Tool3 :> 3)

----------------------------------------------------------------------------
(* Properties of Program::to_instructions, checked under Spec.             *)

\* The last call was to_instructions; the program it ran on is unchanged since.
Compiled == returned.call = "to_instructions"
CompiledOk == Compiled /\ returned.result.ok
CompiledProgram == programs[returned.program]

HeightErrors == {"z_tool_change must be larger than or equal to the z_safe value",
                 "z_safe must be larger than or equal to the workpiece max z value"}

\* The highest Z of the bounds of the operations of all contexts; f64::MIN
\* when there is no operation.
MaxZ(self) ==
    LET zs == UNION {{Operation_bounds(self.contexts[t].operations[i]).max.z :
                        i \in 1..Len(self.contexts[t].operations)} : t \in DOMAIN self.contexts}
    IN  IF zs = {} THEN F64Min ELSE CHOOSE z \in zs : \A y \in zs : y <= z

\* C1: to_instructions returns an error when z_tool_change < z_safe and when
\* z_safe is lower than the highest Z of the bounds over all tools; when
\* z_tool_change >= z_safe >= that Z, it returns no error about the heights.
C1_HeightErrors ==
    Compiled =>
        LET self == CompiledProgram
            result == returned.result
        IN  /\ self.z_tool_change < self.z_safe =>
                 ~result.ok /\ result.error[1] =
                    "z_tool_change must be larger than or equal to the z_safe value"
            /\ (self.z_tool_change >= self.z_safe /\ self.z_safe < MaxZ(self)) =>
                 ~result.ok /\ result.error[1] =
                    "z_safe must be larger than or equal to the workpiece max z value"
            /\ (self.z_tool_change >= self.z_safe /\ self.z_safe >= MaxZ(self)) =>
                 result.ok \/ result.error[1] \notin HeightErrors

\* z_safe -1 under a line that reaches up to 2, z_tool_change above z_safe.
C1_Witness ==
    /\ Compiled /\ ~returned.result.ok
    /\ returned.result.error[1] =
          "z_safe must be larger than or equal to the workpiece max z value"
    /\ CompiledProgram.z_tool_change >= CompiledProgram.z_safe
    /\ \E t \in DOMAIN CompiledProgram.contexts :
          CompiledProgram.contexts[t].operations = <<OpLine>>

CompiledRaw == raw_instructions_of(CompiledProgram).value
IsPlane(instruction) == instruction \in {G17, G18, G19}

\* The first index of the run of identical instructions that holds index i.
RunStart(raw, i) ==
    CHOOSE a \in 1..i : /\ \A j \in a..i : raw[j] = raw[i]
                        /\ (a = 1 \/ raw[a - 1] # raw[i])
IsRunEnd(raw, i) == i = Len(raw) \/ raw[i + 1] # raw[i]

\* The run with index i repeats the plane the most recent earlier
\* plane-select code selected.
RepeatsPlane(raw, i) ==
    /\ IsPlane(raw[i])
    /\ LET earlier == {j \in 1..(RunStart(raw, i) - 1) : IsPlane(raw[j])}
       IN  earlier # {} /\ raw[CHOOSE j \in earlier : \A k \in earlier : k <= j] = raw[i]

\* C8: of the raw list to_instructions builds, the trimming outputs one
\* instruction for each maximal run of identical instructions, none for a
\* run of a plane-select code equal to the plane the most recent earlier
\* plane-select code selected; a plane-select code that switches to another
\* plane is kept.
C8_TrimRuns ==
    CompiledOk =>
        LET raw == CompiledRaw
            ends == {i \in 1..Len(raw) : IsRunEnd(raw, i) /\ ~RepeatsPlane(raw, i)}
            RECURSIVE expected(_)
            expected(i) ==
                IF i = 0 THEN <<>>
                ELSE IF i \in ends THEN Append(expected(i - 1), raw[i]) ELSE expected(i - 1)
        IN  /\ returned.result.value = expected(Len(raw))
            /\ \A i \in 1..Len(raw) :
                  (IsPlane(raw[i]) /\ ~RepeatsPlane(raw, i)) =>
                      \E n \in 1..Len(returned.result.value) : returned.result.value[n] = raw[i]

\* The indices of the raw instructions that hold a NaN.
RawNaN == {i \in 1..Len(CompiledRaw) : holds_NaN(CompiledRaw[i])}

\* What holds of the trimming on every raw list: each maximal run of
\* identical instructions without NaN gives one instruction, a run of
\* instructions that hold a NaN gives all of them, and a run of a
\* plane-select code that repeats the selected plane gives none.
TrimRunsButNaN ==
    CompiledOk =>
        LET raw == CompiledRaw
            ends == {i \in 1..Len(raw) :
                        (holds_NaN(raw[i]) \/ IsRunEnd(raw, i)) /\ ~RepeatsPlane(raw, i)}
            RECURSIVE expected(_)
            expected(i) ==
                IF i = 0 THEN <<>>
                ELSE IF i \in ends THEN Append(expected(i - 1), raw[i]) ELSE expected(i - 1)
        IN  returned.result.value = expected(Len(raw))

\* A program with the path without length compiles, and the raw list has a
\* run of two identical instructions that hold a NaN.
TrimRunOfNaN ==
    /\ CompiledOk
    /\ \E i \in RawNaN : i + 1 \in RawNaN /\ CompiledRaw[i] = CompiledRaw[i + 1]

\* C9: the list to_instructions returns has no two adjacent identical
\* instructions.
C9_NoAdjacentDuplicates ==
    CompiledOk =>
        \A n \in 1..(Len(returned.result.value) - 1) :
            returned.result.value[n] # returned.result.value[n + 1]

\* A program described twice in the same words and renamed is compiled: the
\* header has the new name and one of the two description comments.
DescribedTwice ==
    /\ CompiledOk
    /\ CompiledProgram.meta.name = "renamed"
    /\ CompiledProgram.meta.description = <<"described", "described">>
    /\ returned.result.value[1] = Comment(<<"Name: ", "renamed">>)
    /\ returned.result.value[5] = Comment(<<"Description: ", "described">>)
    /\ returned.result.value[6] # returned.result.value[5]

\* What holds of the list returned: two adjacent identical instructions both
\* hold a NaN.
AdjacentDuplicatesHoldNaN ==
    CompiledOk =>
        \A n \in 1..(Len(returned.result.value) - 1) :
            returned.result.value[n] = returned.result.value[n + 1] =>
                holds_NaN(returned.result.value[n])

\* The tools with a context, by ascending position.
ContextTools(self) ==
    SelectSeq(Program_tools(self), LAMBDA tool : tool \in DOMAIN self.contexts)

\* The number of instructions of the operations 1..n of a context.
RECURSIVE OperationsLen(_, _)
OperationsLen(context, n) ==
    IF n = 0 THEN 0
    ELSE OperationsLen(context, n - 1)
         + Len(Operation_to_instructions(context.operations[n], context).value)

\* The number of raw instructions before the tool change of the k-th tool.
RECURSIVE BlockOffset(_, _)
BlockOffset(self, k) ==
    IF k = 1 THEN Len(program_header(self))
    ELSE LET tool == ContextTools(self)[k - 1]
             context == self.contexts[tool]
         IN  BlockOffset(self, k - 1) + Len(tool_change(self, tool, context))
             + OperationsLen(context, Len(context.operations))

\* The raw indices of the instructions of the n-th operation of the k-th tool.
OperationSpan(self, k, n) ==
    LET tool == ContextTools(self)[k]
        context == self.contexts[tool]
        first == BlockOffset(self, k) + Len(tool_change(self, tool, context))
                 + OperationsLen(context, n - 1)
    IN  (first + 1)..(first + OperationsLen(context, n) - OperationsLen(context, n - 1))

\* Every operation of the compiled program, as <<k, n>>.
CompiledOperations ==
    {kn \in (1..Len(ContextTools(CompiledProgram))) \X (1..MaxOps) :
        kn[2] <= Len(CompiledProgram.contexts[ContextTools(CompiledProgram)[kn[1]]].operations)}

KeptIndices == LET kept == trim_kept(CompiledRaw) IN {kept[n] : n \in 1..Len(kept)}

\* C4 as stated: of every appended operation at least one instruction is in
\* the output: the trimming never removes the whole output of an operation.
C4_EveryOperationKept ==
    CompiledOk =>
        \A kn \in CompiledOperations :
            OperationSpan(CompiledProgram, kn[1], kn[2]) \cap KeptIndices # {}

\* C4 amended: the raw list holds the instructions of every operation of a
\* context, in the order the operations were appended, after the tool change
\* of the context; the output keeps the order of the raw list; an instruction
\* is left out only when it equals the next raw instruction or is a
\* plane-select code that repeats the plane (so an operation whose every
\* instruction is such a one leaves nothing in the output).
C4_OperationsInOrder ==
    CompiledOk =>
        LET self == CompiledProgram
            raw == CompiledRaw
            kept == trim_kept(raw)
        IN  /\ \A kn \in CompiledOperations :
                  LET context == self.contexts[ContextTools(self)[kn[1]]]
                      span == OperationSpan(self, kn[1], kn[2])
                      instructions == Operation_to_instructions(context.operations[kn[2]],
                                                                context).value
                  IN  /\ span \subseteq 1..Len(raw)
                      /\ \A i \in span :
                            raw[i] = instructions[i - (CHOOSE a \in span : \A b \in span : a <= b) + 1]
            /\ returned.result.value = [n \in 1..Len(kept) |-> raw[kept[n]]]
            /\ \A n \in 1..(Len(kept) - 1) : kept[n] < kept[n + 1]
            /\ \A i \in (1..Len(raw)) \ KeptIndices :
                  \/ i < Len(raw) /\ raw[i] = raw[i + 1]
                  \/ RepeatsPlane(raw, i)

\* Two Empty operations in a row, then compiled: the first leaves nothing.
C4_Witness ==
    /\ CompiledOk
    /\ \E t \in DOMAIN CompiledProgram.contexts :
          CompiledProgram.contexts[t].operations = <<OpEmpty, OpEmpty>>
    /\ \E kn \in CompiledOperations :
          OperationSpan(CompiledProgram, kn[1], kn[2]) \cap KeptIndices = {}

----------------------------------------------------------------------------
(* The order of the tool changes, checked under SpecReorder.               *)

\* The indices of the tool-select instructions of an instruction list.
ToolSelects(instructions) ==
    LET RECURSIVE collect(_)
        collect(n) ==
            IF n = 0 THEN <<>>
            ELSE IF instructions[n].op = "M6" THEN Append(collect(n - 1), n)
            ELSE collect(n - 1)
    IN  collect(Len(instructions))

\* The output index of a kept raw index.
OutputIndex(kept, i) == CHOOSE n \in 1..Len(kept) : kept[n] = i

\* C3: the output holds one tool change per tool with a context, by strictly
\* ascending position; the M6 number of a tool change is the position of its
\* tool, also after set_tool_ordering moved tools; the instructions of the
\* operations of a tool lie after its M6 and before the next M6.
C3_ToolChangesByPosition ==
    CompiledOk =>
        LET self == CompiledProgram
            out == returned.result.value
            selects == ToolSelects(out)
            kept == trim_kept(CompiledRaw)
            position == self.tool_ordering.ordering
        IN  /\ Len(selects) = Cardinality(DOMAIN self.contexts)
            /\ {out[selects[k]].t : k \in 1..Len(selects)}
                  = {position[tool] : tool \in DOMAIN self.contexts}
            /\ \A k \in 1..(Len(selects) - 1) : out[selects[k]].t < out[selects[k + 1]].t
            /\ \A k \in 1..Len(selects) :
                  \E tool \in DOMAIN self.contexts :
                     /\ position[tool] = out[selects[k]].t
                     /\ out[selects[k] - 4] = Comment(<<"Tool change: ", tool>>)
                     /\ out[selects[k] + 1] = S(tool.spindle_speed)
            /\ \A kn \in CompiledOperations :
                  \A i \in OperationSpan(self, kn[1], kn[2]) \cap KeptIndices :
                     LET n == OutputIndex(kept, i)
                         tool == ContextTools(self)[kn[1]]
                     IN  \E k \in 1..Len(selects) :
                            /\ out[selects[k]].t = position[tool]
                            /\ selects[k] < n
                            /\ k < Len(selects) => n < selects[k + 1]

\* Tool1 was used first and has a cut; set_tool_ordering put Tool2 first: the
\* output selects tool 1 (Tool2) and then tool 2 (Tool1, with the cut).
C3_Witness ==
    /\ CompiledOk
    /\ Len(CompiledProgram.tool_ordering.tools) > 0
    /\ CompiledProgram.tool_ordering.tools[1] = Tool1
    /\ CompiledProgram.tool_ordering.ordering = (Tool1 :> 2) @@ (Tool2 :> 1)
    /\ DOMAIN CompiledProgram.contexts = {Tool1, Tool2}
    /\ CompiledProgram.contexts[Tool1].operations = <<OpLine>>
    /\ LET selects == ToolSelects(returned.result.value)
       IN  [k \in 1..Len(selects) |-> returned.result.value[selects[k]].t] = <<1, 2>>

----------------------------------------------------------------------------
(* Program::merge, checked under SpecMerge.                                *)

\* C10: merge of a program of other units returns the error of the units
\* and leaves the destination as it was: z_safe, z_tool_change, contexts,
\* operations and tool ordering.
C10_MergeUnitsError ==
    [][(Merge(1, 2) /\ programs[1].units # programs[2].units) =>
          /\ returned'.result = Err(<<"Failed to merge due to mismatching units">>)
          /\ programs' = programs
      ]_vars

\* A Metric program with a cut refused an Imperial one of lower heights.
C10_Witness ==
    /\ returned.call = "merge"
    /\ returned.result = Err(<<"Failed to merge due to mismatching units">>)
    /\ programs[1].units # programs[2].units
    /\ programs[2].z_safe < programs[1].z_safe
    /\ Tool1 \in DOMAIN programs[1].contexts
    /\ programs[1].contexts[Tool1].operations = <<OpLine>>
    /\ DOMAIN programs[2].contexts # {}

\* C11: after a merge that returned Ok, z_safe of the destination is the
\* minimum of the z_safe of the two programs before the call, and its
\* z_tool_change the minimum of their z_tool_change.
C11_MergeLowestHeights ==
    [][(Merge(1, 2) /\ returned'.result.ok) =>
          /\ programs'[1].z_safe = Min(programs[1].z_safe, programs[2].z_safe)
          /\ programs'[1].z_tool_change = Min(programs[1].z_tool_change,
                                              programs[2].z_tool_change)
          /\ programs'[1].z_safe \in {programs[1].z_safe, programs[2].z_safe}
          /\ programs'[1].z_safe <= programs[1].z_safe
          /\ programs'[1].z_safe <= programs[2].z_safe
      ]_vars

\* A program of heights 2 and 2 took over a program of heights 3 and 4 with a
\* cut: its heights stay 2 and 2.
C11_Witness ==
    /\ returned.call = "merge" /\ returned.result.ok
    /\ programs[2].z_safe = 3 /\ programs[2].z_tool_change = 4
    /\ programs[1].z_safe = 2 /\ programs[1].z_tool_change = 2
    /\ Tool1 \in DOMAIN programs[2].contexts
    /\ programs[2].contexts[Tool1].operations # <<>>

\* C12: after a merge that returned Ok, for every tool with a context in the
\* source the destination has a context with the operations it had before
\* (none without a context) followed by those of the source, and with the
\* heights of the context of the source; the other contexts of the
\* destination and the source program are unchanged.
C12_MergeConcatenates ==
    [][(Merge(1, 2) /\ returned'.result.ok) =>
          LET destination == programs[1]
              source == programs[2]
              merged == programs'[1]
          IN  /\ DOMAIN merged.contexts = DOMAIN destination.contexts \cup DOMAIN source.contexts
              /\ \A tool \in DOMAIN source.contexts :
                    /\ merged.contexts[tool].operations =
                          (IF tool \in DOMAIN destination.contexts
                           THEN destination.contexts[tool].operations ELSE <<>>)
                          \o source.contexts[tool].operations
                    /\ merged.contexts[tool].z_safe = source.contexts[tool].z_safe
                    /\ merged.contexts[tool].z_tool_change = source.contexts[tool].z_tool_change
                    /\ merged.contexts[tool].tool = tool
              /\ \A tool \in DOMAIN destination.contexts \ DOMAIN source.contexts :
                    merged.contexts[tool] = destination.contexts[tool]
              /\ programs'[2] = source
      ]_vars

\* The destination had an Empty for Tool1, the source a line for Tool1 and a
\* context for Tool2: the destination holds Empty, line and the new context.
C12_Witness ==
    /\ returned.call = "merge" /\ returned.result.ok
    /\ DOMAIN programs[1].contexts = {Tool1, Tool2}
    /\ DOMAIN programs[2].contexts = {Tool1, Tool2}
    /\ programs[1].contexts[Tool1].operations = <<OpEmpty, OpLine>>
    /\ programs[2].contexts[Tool1].operations = <<OpLine>>
    /\ programs[1].contexts[Tool1].z_safe = programs[2].contexts[Tool1].z_safe
    /\ programs[2].z_safe # programs[1].z_safe

\* C13: merge returns Ok or an error value, it never aborts the process.
C13_MergeNeverPanics ==
    returned.call = "merge" => "panic" \notin DOMAIN returned.result

----------------------------------------------------------------------------
(* Tool changes of contexts without operations, checked under Spec.        *)

\* The tool of a program that holds a position.
ToolAt(self, position) ==
    CHOOSE tool \in DOMAIN self.tool_ordering.ordering :
        self.tool_ordering.ordering[tool] = position

\* C14: the output of to_instructions holds a tool change (M6) only for a
\* tool whose context holds at least one operation.
C14_NoToolChangeForEmptyContext ==
    CompiledOk =>
        LET out == returned.result.value
        IN  \A n \in 1..Len(out) :
               out[n].op = "M6" =>
                  LET tool == ToolAt(CompiledProgram, out[n].t)
                  IN  /\ tool \in DOMAIN CompiledProgram.contexts
                      /\ CompiledProgram.contexts[tool].operations # <<>>

----------------------------------------------------------------------------
(* The Camotics export, checked under SpecReorder.                         *)

\* C15: every tool of the program that has a context (and so a tool change
\* M6 in the output of to_instructions) is in the tools of
\* Camotics::from_program under the key, and with the number, of its
\* ToolOrdering position, the T number of its tool change.
C15_CamoticsNumbersArePositions ==
    returned.call = "from_program" =>
        LET self == programs[returned.program]
            camotics == returned.result.value
            compiled == Program_to_instructions(self)
        IN  \A tool \in DOMAIN self.contexts :
               LET position == self.tool_ordering.ordering[tool]
               IN  /\ compiled.ok
                   /\ \E n \in 1..Len(compiled.value) : compiled.value[n] = M6(position)
                   /\ position \in DOMAIN camotics.tools
                   /\ camotics.tools[position] = CamoticsTool_from_tool(tool, position)

----------------------------------------------------------------------------
(* The layered cuts, compiled on their own (SpecCuts).                     *)

TheCut == CutOf(1)
CutCompiled == returned.call = "cut_to_instructions"
CutCompiledOk == CutCompiled /\ returned.result.ok

\* The instructions one pass emits for a segment, and the one among them
\* that ends the segment.
SegmentInstructions(segment) ==
    CASE segment.kind = "Arc" -> 4
      [] segment.kind = "Line" -> 2
      [] segment.kind = "Point" -> 1
SegmentEndInstruction(segment) ==
    CASE segment.kind = "Arc" -> 3
      [] segment.kind = "Line" -> 2
      [] segment.kind = "Point" -> 1

RECURSIVE InstructionsUpTo(_, _)
InstructionsUpTo(path, i) ==
    IF i = 0 THEN 0
    ELSE InstructionsUpTo(path, i - 1) + SegmentInstructions(path.segments[i])

PassLength(path) == InstructionsUpTo(path, Len(path.segments))

\* The index, in the output, of the instruction that starts / ends segment i
\* of pass k (the passes follow the five instructions of the approach).
SegmentStartIndex(path, k, i) ==
    5 + k * PassLength(path) + InstructionsUpTo(path, i - 1) + 1
SegmentEndIndex(path, k, i) ==
    5 + k * PassLength(path) + InstructionsUpTo(path, i - 1)
      + SegmentEndInstruction(path.segments[i])

\* The length of segment i: of the line, or from the previous point
SegmentLength(path, i) ==
    LET segment == path.segments[i]
    IN  CASE segment.kind = "Line" -> Vector2_distance_to(segment.from, segment.to)
          [] segment.kind = "Point" ->
               IF i = 1 THEN 0
               ELSE Vector2_distance_to(Segment_end(path.segments[i - 1]), segment.point)

RECURSIVE LengthUpTo(_, _)
LengthUpTo(path, i) ==
    IF i = 0 THEN 0 ELSE LengthUpTo(path, i - 1) + SegmentLength(path, i)

HasArc(path) == \E i \in 1..Len(path.segments) : path.segments[i].kind = "Arc"

\* C16: a path with at least one segment and start.z >= end_z is traversed
\* floor((start.z - end_z) / |max_step_z|) + 1 times; pass k starts at
\* start.z - k * |max_step_z| and its last segment ends at exactly
\* start.z - (k + 1) * |max_step_z|, each segment descending by its share
\* (segment length / total length) of the step; the last pass is at end_z.
C16_PathLayers ==
    (CutCompiledOk /\ TheCut.kind = "Path" /\ TheCut.segments # <<>>
       /\ TheCut.start.z >= TheCut.end_z) =>
        LET path == TheCut
            out == returned.result.value
            step == Abs(path.max_step_z)
            layers == (path.start.z - path.end_z) \div step
            last == Len(path.segments)
            total == LengthUpTo(path, last)
        IN  /\ Len(out) = 5 + (layers + 1) * PassLength(path) + 1
            /\ \A k \in 0..(layers - 1) :
                 /\ path.segments[1].kind # "Point" =>
                        out[SegmentStartIndex(path, k, 1)].z = Some(path.start.z - k * step)
                 /\ out[SegmentEndIndex(path, k, last)].z
                        = Some(path.start.z - (k + 1) * step)
                 /\ ~HasArc(path) =>
                        \A i \in 1..last :
                            LET z == out[SegmentEndIndex(path, k, i)].z[1]
                            IN  (path.start.z - k * step - z) * total
                                    = step * LengthUpTo(path, i)
            /\ \A i \in 1..last :
                 /\ out[SegmentEndIndex(path, layers, i)].z = Some(path.end_z)
                 /\ path.segments[i].kind # "Point" =>
                        out[SegmentStartIndex(path, layers, i)].z = Some(path.end_z)

ArcMoves(out) == Cardinality({n \in 1..Len(out) : out[n].op \in {"G2", "G3"}})
Plunges(out) == Cardinality({n \in 1..Len(out) : out[n].op = "G1"})

\* floor((start.z - end_z) / |max_step_z|)
FloorLayers(cut) == (cut.start.z - cut.end_z) \div Abs(cut.max_step_z)

CircleCompiled == CutCompiled /\ TheCut.kind = "Circle"
EffectiveRadius == Circle_cut_radius(TheCut, CutContext(1)).nearest
\* The effective radius, as the code computes it, is in [0, 0.001), and is
\* 0.001 or more
EffectiveDrills == Circle_drills(TheCut, CutContext(1))
EffectiveSpirals == EffectiveRadius > 0 /\ ~EffectiveDrills

\* C17: a circle whose effective radius is in [0, 0.001) is one plunge and
\* no arc move, one whose effective radius is negative is an error, and from
\* 0.001 upward it is floor((start.z - end_z) / |max_step_z|) + 2 arc moves.
C17_CircleArcCount ==
    CircleCompiled =>
        /\ EffectiveRadius < 0 => ~returned.result.ok
        /\ EffectiveDrills =>
              /\ returned.result.ok
              /\ ArcMoves(returned.result.value) = 0
              /\ Plunges(returned.result.value) = 1
        /\ EffectiveSpirals =>
              /\ returned.result.ok
              /\ ArcMoves(returned.result.value) = FloorLayers(TheCut) + 2

\* C17, amended: from 0.001 upward the arc moves are max(0, floor((start.z -
\* end_z) / |max_step_z|)) + 2 full circles (two when end_z is above
\* start.z), and the instruction count does not decrease with the floor.
C17_CircleBranches ==
    CircleCompiled =>
        /\ EffectiveRadius < 0 => ~returned.result.ok
        /\ EffectiveDrills =>
              /\ returned.result.ok
              /\ ArcMoves(returned.result.value) = 0
              /\ Plunges(returned.result.value) = 1
        /\ EffectiveSpirals =>
              LET out == returned.result.value
              IN  /\ returned.result.ok
                  /\ ArcMoves(out) = Max(0, FloorLayers(TheCut)) + 2
                  /\ \A n \in 1..Len(out) :
                        out[n].op \in {"G2", "G3"} =>
                            /\ out[n].op = "G2"
                            /\ out[n].x = Some(TheCut.start.x - EffectiveRadius)
                            /\ out[n].y = None
                            /\ out[4] = G0(out[n].x, Some(TheCut.start.y), None)
                  /\ \A other \in CircleInputs :
                        (/\ other.max_step_z # 0
                         /\ Circle_cut_radius(other, CutContext(1)).nearest > 0
                         /\ ~Circle_drills(other, CutContext(1))
                         /\ FloorLayers(TheCut) <= FloorLayers(other)) =>
                            Len(out) <= Len(Circle_to_instructions(other,
                                                                   CutContext(1)).value)

\* A circle of effective radius 0.001 or more whose end_z is above its
\* start.z is compiled: two full circles at end_z.
C17_Witness ==
    /\ CircleCompiled
    /\ returned.result.ok
    /\ EffectiveSpirals
    /\ TheCut.start.z < TheCut.end_z
    /\ ArcMoves(returned.result.value) = 2

\* A circle whose effective radius is inside (0, 0.001) is compiled: radius
\* 0.009 inside a tool of radius 0.008, 0.0009999999999999992 as f64. It is
\* drilled.
CircleShortOfThreshold ==
    /\ CircleCompiled
    /\ Circle_cut_radius(TheCut, CutContext(1)) = [nearest |-> Thousandth, short |-> TRUE]
    /\ returned.result.ok
    /\ ArcMoves(returned.result.value) = 0

\* floor(100 * sqrt(n)): the distance of square n, in hundredths of a thousandth
RootInHundredths(n) ==
    CHOOSE r \in 0..(100 * n) : r * r <= 10000 * n /\ 10000 * n < (r + 1) * (r + 1)

\* |sqrt(m) - sqrt(n)| in hundredths, less than one above the value it gives
RootsApart(m, n) == Abs(RootInHundredths(m) - RootInHundredths(n))

\* The difference of the distances from and to the center is above / not
\* above 0.0001, which is 10 hundredths of a thousandth.
ApartBeyondTolerance(from, to, center, distance_squared(_, _)) ==
    RootsApart(distance_squared(from, center), distance_squared(to, center)) >= 11
ApartWithinTolerance(from, to, center, distance_squared(_, _)) ==
    RootsApart(distance_squared(from, center), distance_squared(to, center)) <= 9

ArcSegments(path) == {i \in 1..Len(path.segments) : path.segments[i].kind = "Arc"}

\* C18: an arc is an error exactly when the distances of from and to to the
\* center differ by more than 0.0001, and a path with at least one segment
\* is an error exactly when that holds for at least one of its arc segments.
C18_ArcErrorIffApart ==
    /\ (CutCompiled /\ TheCut.kind = "Arc") =>
          /\ ApartBeyondTolerance(TheCut.from, TheCut.to, TheCut.center,
                                  distance_to_squared) => ~returned.result.ok
          /\ ApartWithinTolerance(TheCut.from, TheCut.to, TheCut.center,
                                  distance_to_squared) => returned.result.ok
    /\ (CutCompiled /\ TheCut.kind = "Path" /\ TheCut.segments # <<>>) =>
          /\ (\E i \in ArcSegments(TheCut) :
                 ApartBeyondTolerance(TheCut.segments[i].from, TheCut.segments[i].to,
                                      TheCut.segments[i].center,
                                      Vector2_distance_to_squared))
              => ~returned.result.ok
          /\ (\A i \in ArcSegments(TheCut) :
                 ApartWithinTolerance(TheCut.segments[i].from, TheCut.segments[i].to,
                                      TheCut.segments[i].center,
                                      Vector2_distance_to_squared))
              => returned.result.ok

\* A path whose only segment is an arc with from and to 0.0000557 apart in
\* their distance to the center is compiled.
C18_Witness ==
    /\ CutCompiledOk
    /\ TheCut.kind = "Path"
    /\ TheCut.segments = <<ArcNear>>
    /\ ArcMoves(returned.result.value) >= 1

\* A length as an error message prints it: rounded to two decimals, which
\* is to ten thousandths
TwoDecimals(value) == CHOOSE t \in 0..(value + 10) : t % 10 = 0 /\ Abs(t - value) < 5

SizedCompiled == CutCompiled /\ TheCut.kind \in {"Frame", "Area"}
ToolDiameter == CutContext(1).tool.diameter

\* The error of the call names the axis and the shortfall of that size
SizeErrorNames(axis, size) ==
    /\ ~returned.result.ok
    /\ returned.result.error[3] = TwoDecimals(ToolDiameter - size)
    /\ returned.result.error[6]
          = (IF axis = "x" THEN "than x dimension (tool diameter is"
             ELSE "than y dimension (tool diameter is")

\* C19: a frame or an area whose declared size is below the tool diameter on
\* X or on Y is an error that names the axis, X before Y, and the shortfall
\* tool diameter - size; no size error when both sizes are at least the
\* tool diameter.
C19_SizeErrors ==
    SizedCompiled =>
        /\ TheCut.size.x < ToolDiameter => SizeErrorNames("x", TheCut.size.x)
        /\ (TheCut.size.x >= ToolDiameter /\ TheCut.size.y < ToolDiameter) =>
              SizeErrorNames("y", TheCut.size.y)
        /\ (TheCut.size.x >= ToolDiameter /\ TheCut.size.y >= ToolDiameter) =>
              returned.result.ok

\* An inner area that is wide enough on X and 0.01 short of the tool
\* diameter on Y is refused for its Y size.
C19_Witness ==
    /\ SizedCompiled
    /\ TheCut.kind = "Area"
    /\ TheCut.compensation = "Inner"
    /\ TheCut.size.x >= ToolDiameter
    /\ ToolDiameter - TheCut.size.y = 10
    /\ SizeErrorNames("y", TheCut.size.y)

BoundsTaken == returned.call = "cut_bounds"

\* C20: the bounds of a cut are the same at every call, and for a circle, a
\* frame, an area, a line and a path with at least one segment min <= max
\* on X, Y and Z, whatever the fields (end_z above start.z, a negative
\* radius or a negative size included).
C20_BoundsOrdered ==
    (/\ BoundsTaken
     /\ TheCut.kind \in {"Circle", "Frame", "Area", "Line", "Path"}
     /\ TheCut.kind = "Path" => TheCut.segments # <<>>) =>
        LET bounds == returned.result.value
        IN  /\ bounds = Cut_bounds(TheCut)
            /\ bounds.min.x <= bounds.max.x
            /\ bounds.min.y <= bounds.max.y
            /\ bounds.min.z <= bounds.max.z

----------------------------------------------------------------------------
(* Program::bounds and the cuts of the program                              *)

BoundsTakenOfProgram == returned.call = "bounds"

\* The boxes of the cuts of a program, over every context
CutBoxes(self) ==
    LET cuts == UNION {{<<tool, i>> : i \in {n \in 1..Len(self.contexts[tool].operations) :
                                              self.contexts[tool].operations[n].type = "Cut"}} :
                       tool \in DOMAIN self.contexts}
    IN  {Cut_bounds(self.contexts[cut[1]].operations[cut[2]].cut) : cut \in cuts}

\* The least and the greatest of a set of numbers; the sentinels of
\* Bounds::minmax for the empty set
MinOf(numbers) ==
    IF numbers = {} THEN F64Max ELSE CHOOSE m \in numbers : \A n \in numbers : m <= n
MaxOf(numbers) ==
    IF numbers = {} THEN F64Min ELSE CHOOSE m \in numbers : \A n \in numbers : m >= n

\* C21: Program::bounds is, on every axis, the least min and the greatest max
\* of the bounds of the cuts appended to any context of the program, whatever
\* the order of the appends and the positions of the tools.
C21_BoundsFoldOfCuts ==
    BoundsTakenOfProgram =>
        LET boxes == CutBoxes(programs[1])
            bounds == returned.result.value
        IN  /\ bounds.min.x = MinOf({box.min.x : box \in boxes})
            /\ bounds.min.y = MinOf({box.min.y : box \in boxes})
            /\ bounds.min.z = MinOf({box.min.z : box \in boxes})
            /\ bounds.max.x = MaxOf({box.max.x : box \in boxes})
            /\ bounds.max.y = MaxOf({box.max.y : box \in boxes})
            /\ bounds.max.z = MaxOf({box.max.z : box \in boxes})

\* The same, on the programs whose operations are all cuts
BoundsFoldOfCutsOnly ==
    (\A tool \in DOMAIN programs[1].contexts :
        \A n \in 1..Len(programs[1].contexts[tool].operations) :
            programs[1].contexts[tool].operations[n].type = "Cut")
    => C21_BoundsFoldOfCuts

----------------------------------------------------------------------------
(* The depths of the passes of a circle                                     *)

\* The places of the cutting moves (the plunge and the full circles) in the
\* instructions of a cut
CuttingMoves(out) == {n \in 1..Len(out) : out[n].op \in {"G1", "G2", "G3"} /\ out[n].z # None}

\* Two cutting moves with no cutting move between them
ConsecutiveMoves(out, m, n) ==
    /\ m \in CuttingMoves(out)
    /\ n \in CuttingMoves(out)
    /\ m < n
    /\ \A k \in CuttingMoves(out) : ~(m < k /\ k < n)

SpiralCompiled ==
    /\ CircleCompiled
    /\ returned.result.ok
    /\ EffectiveSpirals
    /\ TheCut.start.z >= TheCut.end_z

\* C22: in a circle of effective radius 0.001 or more with start.z >= end_z,
\* the depths of two consecutive passes, from the plunge at start.z to the
\* pass at end_z, are never more than |max_step_z| apart, and no pass is
\* below end_z.
C22_CircleStepAtMostMaxStep ==
    SpiralCompiled =>
        LET out == returned.result.value
        IN  /\ \A n \in CuttingMoves(out) : out[n].z[1] >= TheCut.end_z
            /\ \A m, n \in 1..Len(out) :
                  ConsecutiveMoves(out, m, n) =>
                      out[m].z[1] - out[n].z[1] <= Abs(TheCut.max_step_z)

\* The same for the circles whose depth is a multiple of |max_step_z|
CircleStepOfWholeLayers ==
    (TheCut.kind = "Circle" /\ TheCut.max_step_z # 0
     /\ (TheCut.start.z - TheCut.end_z) % Abs(TheCut.max_step_z) = 0)
    => C22_CircleStepAtMostMaxStep

\* The last descent of a circle, to end_z, is less than twice |max_step_z|
CircleStepBelowTwice ==
    SpiralCompiled =>
        LET out == returned.result.value
        IN  \A m, n \in 1..Len(out) :
               ConsecutiveMoves(out, m, n) =>
                   out[m].z[1] - out[n].z[1] < 2 * Abs(TheCut.max_step_z)

----------------------------------------------------------------------------
(* The helpers of Cut that build a circle                                   *)

CircleBuilt == returned.call = "cut_circle"

\* C23: the circle built by Cut::circle, Cut::circle_inner or
\* Cut::circle_outer from (start, end_z, radius, max_step_z) has the given
\* end_z as its end_z and the given radius as its radius.
C23_CircleHelperFields ==
    CircleBuilt =>
        /\ returned.result.value.end_z = TheCut.end_z
        /\ returned.result.value.radius = TheCut.radius

\* The helpers do keep the start, the step and the compensation, and the
\* two numbers given: the circle built has them in each other's place
CircleHelperSwaps ==
    CircleBuilt =>
        returned.result.value =
            Circle_new(TheCut.start, TheCut.end_z, TheCut.radius, TheCut.max_step_z,
                       TheCut.compensation)

----------------------------------------------------------------------------
(* The contexts of the tools, checked under SpecContexts                    *)

\* C24: Program::context and Program::extend for a tool that has a context
\* change nothing in the program: the operations and the heights of that
\* context, the other contexts and the positions of the tools stay.
C24_ContextCreatedOnce ==
    [][\A p \in ProgramIds : \A tool \in ProgramTools :
          ((Context(p, tool) \/ Extend(p, tool)) /\ tool \in DOMAIN programs[p].contexts)
          => programs' = programs
      ]_vars

\* Program::context was called for a tool whose context holds an operation
\* and heights that are not those of its program any more.
C24_Witness ==
    /\ returned.call = "extend"
    /\ Tool1 \in DOMAIN programs[1].contexts
    /\ programs[1].contexts[Tool1].operations # <<>>
    /\ programs[1].contexts[Tool1].z_safe # programs[1].z_safe

\* C25: the z_safe of every context is at or above the z_safe of its program.
C25_ContextSafeAboveProgramSafe ==
    \A p \in ProgramIds : \A tool \in DOMAIN programs[p].contexts :
        programs[p].contexts[tool].z_safe >= programs[p].z_safe

\* The same as long as no Context::merge was the last call: Program::context,
\* Program::extend, Context::append and Program::merge keep it.
ContextSafeKeptByOtherCalls ==
    [][(C25_ContextSafeAboveProgramSafe /\ returned'.call # "context_merge")
          => C25_ContextSafeAboveProgramSafe']_vars

\* The operations without geometry
NonCutOperations == {OpEmpty, OpComment, OpMessage}

\* The z_safe validation of Program::to_instructions rejects the program
ZSafeRejected(self) == self.z_safe < Program_bounds(self).max.z

\* C26: appending a Comment, Message or Empty operation to a context leaves
\* the bounds of the context and of the program unchanged, and with them the
\* outcome of the z_safe validation of Program::to_instructions.
C26_NonCutAppendKeepsBounds ==
    [][\A tool \in ProgramTools, operation \in NonCutOperations :
          ContextAppend(1, tool, operation)
          => /\ InnerContext_bounds(programs'[1].contexts[tool])
                  = InnerContext_bounds(programs[1].contexts[tool])
             /\ Program_bounds(programs'[1]) = Program_bounds(programs[1])
             /\ ZSafeRejected(programs'[1]) = ZSafeRejected(programs[1])]_vars

\* What the code does instead: such an operation counts as the box of the
\* single point (0, 0, 0), which the bounds of its context then enclose.
NonCutAppendFoldsOrigin ==
    [][\A tool \in ProgramTools, operation \in NonCutOperations :
          ContextAppend(1, tool, operation)
          => InnerContext_bounds(programs'[1].contexts[tool])
                = Bounds_fold(InnerContext_bounds(programs[1].contexts[tool]),
                              Bounds_default)]_vars

\* C27: after any sequence of context, extend, set_tool_ordering and merge
\* calls every tool with a context has a position in the ordering of its
\* program, and is among the tools Program::to_instructions walks.
C27_ContextToolsHavePosition ==
    \A p \in ProgramIds : \A tool \in DOMAIN programs[p].contexts :
        /\ Program_tool_ordering(programs[p], tool) # None
        /\ tool \in ToolsOf(Program_tools(programs[p]))

\* A merge has brought a context into a program whose positions were set by
\* hand, from a program whose positions were set by hand too.
C27_Witness ==
    /\ returned.call = "merge"
    /\ returned.result.ok
    /\ DOMAIN programs[returned.program].contexts = ProgramTools
    /\ \A p \in ProgramIds : DOMAIN programs[p].tool_ordering.explicit_ordering # {}

\* The motions of an instruction list, and those that command a Z
Motions(out) == {n \in 1..Len(out) : out[n].op \in {"G0", "G1", "G2", "G3"}}
ZMotions(out) == {n \in Motions(out) : out[n].z # None}

\* The rapid moves that set X or Y, and the feed moves that set Z
TravelMoves(out) ==
    {n \in 1..Len(out) : out[n].op = "G0" /\ (out[n].x # None \/ out[n].y # None)}
PlungeMoves(out) == {n \in ZMotions(out) : out[n].op # "G0"}

\* The Z most recently commanded before instruction n, None before the first
LastZBefore(out, n) ==
    LET before == {m \in ZMotions(out) : m < n}
    IN  IF before = {} THEN None ELSE out[MaxOf(before)].z

\* Instruction n is a rapid to the height z and nowhere else
IsRetractTo(out, n, z) ==
    out[n].op = "G0" /\ out[n].z = Some(z) /\ out[n].x = None /\ out[n].y = None

\* Every rapid that sets X or Y finds the tool at the height z_safe
TravelsAtSafe(out, z_safe) ==
    \A n \in TravelMoves(out) : LastZBefore(out, n) = Some(z_safe)

\* The discipline of one cut: nothing moves, or the first motion is the
\* retract, the rapids travel at z_safe and the last Z commanded is the retract
CutRetracts(out, z_safe) ==
    \/ Motions(out) = {}
    \/ /\ IsRetractTo(out, MinOf(Motions(out)), z_safe)
       /\ TravelsAtSafe(out, z_safe)
       /\ IsRetractTo(out, MaxOf(ZMotions(out)), z_safe)

\* The same in a program, whose first and last Z are the tool change height:
\* every feed move that sets Z has a rapid before it and the latest is to
\* z_safe, and the first rapid that commands a Z after it is the retract
ProgramRetracts(out, z_safe) ==
    /\ TravelsAtSafe(out, z_safe)
    /\ \A n \in PlungeMoves(out) :
          LET before == {m \in ZMotions(out) : m < n /\ out[m].op = "G0"}
              after == {m \in ZMotions(out) : m > n /\ out[m].op = "G0"}
          IN  /\ before # {} /\ out[MaxOf(before)].z = Some(z_safe)
              /\ after # {} /\ IsRetractTo(out, MinOf(after), z_safe)

RetractingKinds == {"Arc", "Circle", "Line", "Path", "Frame"}

\* C28: the instructions of an Arc, Circle, Line, Path or Frame cut start
\* with a rapid to the safe height of the context, every rapid that sets X or
\* Y is issued while the last Z commanded is that height, and the last Z
\* commanded is a rapid back to it; the trimmed output of a program of such
\* cuts keeps the discipline.
C28_CutsTravelAtSafeHeight ==
    /\ (returned.call = "cut_to_instructions" /\ returned.result.ok
          /\ CutOf(1).kind \in RetractingKinds)
       => CutRetracts(returned.result.value, CutContext(1).z_safe)
    /\ (returned.call = "to_instructions" /\ returned.result.ok
          /\ \A i \in 1..Len(CutContext(1).operations) :
                CutContext(1).operations[i].cut.kind \in RetractingKinds)
       => ProgramRetracts(returned.result.value, CutContext(1).z_safe)

\* A program of a path cut in layers and a line is compiled.
C28_Witness ==
    /\ returned.call = "to_instructions"
    /\ returned.result.ok
    /\ Len(CutContext(1).operations) = 2
    /\ CutOf(1).kind = "Path"
    /\ Path_layers(CutOf(1)) > 0
    /\ CutContext(1).operations[2] = OpLine
    /\ Cardinality(TravelMoves(returned.result.value)) = 2

\* The bounds of a path taken by the last call, and the same path started
\* at X = 0 and Y = 0
PathBoundsTaken ==
    returned.call = "cut_bounds" /\ CutOf(1).kind = "Path" /\ CutOf(1).segments # <<>>
PathAtOrigin(self) == [self EXCEPT !.start = Vector3(0, 0, self.start.z)]

\* The box moved by (dx, dy)
Bounds_moved(bounds, dx, dy) ==
    [min |-> Vector3(bounds.min.x + dx, bounds.min.y + dy, bounds.min.z),
     max |-> Vector3(bounds.max.x + dx, bounds.max.y + dy, bounds.max.z)]

HasArcSegment(self) == \E i \in 1..Len(self.segments) : self.segments[i].kind = "Arc"

\* C29: Path::bounds moves with the start of the path: the bounds of a path
\* started at (dx, dy) are the bounds of the same segments started at (0, 0)
\* moved by (dx, dy) on X and Y, for line, point and arc segments alike.
C29_PathBoundsMoveWithStart ==
    PathBoundsTaken
    => returned.result.value
          = Bounds_moved(Path_bounds(PathAtOrigin(CutOf(1))),
                         CutOf(1).start.x, CutOf(1).start.y)

\* The same for the paths of lines and points only, which is what the code
\* keeps: the box of an arc segment is laid around its center as given, not
\* around its center moved by the start.
PathBoundsMoveWithoutArcs ==
    (PathBoundsTaken /\ ~HasArcSegment(CutOf(1)))
    => returned.result.value
          = Bounds_moved(Path_bounds(PathAtOrigin(CutOf(1))),
                         CutOf(1).start.x, CutOf(1).start.y)

\* A cut of the kind was compiled by the last call and passed its validation
CompiledCutOf(kind) == CutCompiledOk /\ TheCut.kind = kind

\* The divisor of Frame::generate_layer_instructions for the frame of the
\* program: the circumference of the compensated rectangle
FrameDivisor ==
    LET size == compensated_size(CutOf(1), Tool_radius(CutContext(1).tool))
    IN  (size.x + size.y) * 2

\* The divisor of Path::segments_to_instructions for the path of the program
PathDivisor == Path_total_distance(Path_distances(CutOf(1)))

\* C30: the divisor that distributes the Z descent of a layer is not zero in
\* a cut that passed validation: the circumference of the compensated
\* rectangle of a frame whose declared size is at least the tool diameter on
\* both axes, and the total segment length of a path with a segment.
C30_LayerDivisorNotZero ==
    /\ CompiledCutOf("Frame") => FrameDivisor # 0
    /\ (CompiledCutOf("Path") /\ CutOf(1).segments # <<>>) => PathDivisor # 0

\* Where the divisor is zero in the frames and paths of the model: a frame
\* with Inner compensation whose two sizes equal the tool diameter, and a
\* path whose segments all end at (0, 0).
LayerDivisorZeroOnlyWhenDegenerate ==
    /\ (CompiledCutOf("Frame") /\ FrameDivisor = 0)
       => /\ CutOf(1).compensation = "Inner"
          /\ CutOf(1).size.x = Tool_diameter(CutContext(1).tool)
          /\ CutOf(1).size.y = Tool_diameter(CutContext(1).tool)
    /\ (CompiledCutOf("Path") /\ CutOf(1).segments # <<>> /\ PathDivisor = 0)
       => \A i \in 1..Len(CutOf(1).segments) :
             Segment_end(CutOf(1).segments[i]) = Vector2(0, 0)

\* With a zero divisor a Z of the compiled cut is not a number.
LayerDivisorZeroCommandsNaN ==
    ((CompiledCutOf("Frame") /\ FrameDivisor = 0)
       \/ (CompiledCutOf("Path") /\ CutOf(1).segments # <<>> /\ PathDivisor = 0))
    => \E n \in 1..Len(returned.result.value) :
          /\ returned.result.value[n].op = "G1"
          /\ returned.result.value[n].z = Some(NaN)

====
